---- MODULE Spec2Model ----
(***************************************************************************)
(* A model of src/src/data-generator/generate.js: the size parser          *)
(* (parseSize), the two stream generators (TextDataGenerator and           *)
(* BinaryDataGenerator) and the command-line run that drives them          *)
(* (program.action -> generateData -> pipeline); of                        *)
(* src/src/data-generator/bulk-upload.sh, which generates, uploads and     *)
(* deletes a number of files; and of infra/destroy.sh, which deletes the   *)
(* resource group after two confirmations.                                 *)
(*                                                                         *)
(* Representation.                                                         *)
(*  - A size string is a sequence of one-character strings.                *)
(*  - A text pattern is a sequence of UTF-16 code units (JavaScript        *)
(*    string elements); a binary buffer is a sequence of bytes.            *)
(*    A repeated string or filled buffer is kept as its period and its     *)
(*    length, and a file as the sequence of the chunks written to it.      *)
(*  - A JavaScript Number is an IEEE-754 double.  The values parseSize     *)
(*    handles are non-negative, so a double is [m, e] with value           *)
(*    m * 2^e, m a natural number of at most 53 bits.  Naturals that may   *)
(*    exceed 31 bits are sequences of 15-bit limbs, least significant      *)
(*    first, without leading zeros (the empty sequence is 0).              *)
(***************************************************************************)
EXTENDS Integers, Sequences, FiniteSets, TLC

VARIABLES
    runs,       \* run id -> state of one command-line run of generate.js
    sizeStr,    \* the argument of a stand-alone call of parseSize
    parsed,     \* the outcome of that call, NotCalled before it
    bulk,       \* the state of a run of bulk-upload.sh, NoScript without one
    destroy     \* the state of a run of infra/destroy.sh, NoScript without one

vars == <<runs, sizeStr, parsed, bulk, destroy>>

NoScript == [pc |-> "none"]

(***************************************************************************)
(* Natural numbers that may exceed 31 bits: sequences of limbs of LimbBits *)
(* bits, least significant first, without leading zero limbs (<<>> is 0).  *)
(***************************************************************************)
Min(a, b) == IF a <= b THEN a ELSE b

LimbBits == 15

Base == 2^LimbBits

RECURSIVE Norm(_)
Norm(a) == IF a = <<>> THEN <<>>
           ELSE IF a[Len(a)] = 0 THEN Norm(SubSeq(a, 1, Len(a) - 1))
           ELSE a

RECURSIVE FromNat(_)
FromNat(n) == IF n = 0 THEN <<>> ELSE <<n % Base>> \o FromNat(n \div Base)

\* the number as a TLA+ integer, for numbers below 2^31
RECURSIVE ToNat(_)
ToNat(a) == IF a = <<>> THEN 0 ELSE a[1] + Base * ToNat(Tail(a))

\* a * m + c for small m and c
RECURSIVE MulAdd(_, _, _)
MulAdd(a, m, c) ==
    IF a = <<>> THEN FromNat(c)
    ELSE LET t == a[1] * m + c
         IN  <<t % Base>> \o MulAdd(Tail(a), m, t \div Base)

\* the limbs i..1 of a divided by a small m, with r the remainder of the limbs
\* above i: <<quotient limbs, remainder>>
RECURSIVE DivFrom(_, _, _, _)
DivFrom(a, m, i, r) ==
    IF i = 0 THEN <<<<>>, r>>
    ELSE LET t    == r * Base + a[i]
             rest == DivFrom(a, m, i - 1, t % m)
         IN  <<Append(rest[1], t \div m), rest[2]>>

DivSmall(a, m) ==
    LET qr == DivFrom(a, m, Len(a), 0) IN [q |-> Norm(qr[1]), r |-> qr[2]]

\* a * 2^n
Shl(a, n) ==
    LET w == n \div LimbBits
        b == 2^(n % LimbBits)
        s == [j \in 1..(Len(a) + 1) |->
                (IF j <= Len(a) THEN (a[j] * b) % Base ELSE 0)
                + (IF j >= 2 THEN (a[j - 1] * b) \div Base ELSE 0)]
    IN  IF a = <<>> THEN <<>> ELSE Norm([j \in 1..w |-> 0] \o s)

\* floor(a / 2^n)
Shr(a, n) ==
    LET w == n \div LimbBits
        b == 2^(n % LimbBits)
        c == SubSeq(a, w + 1, Len(a))
    IN  IF w >= Len(a) THEN <<>>
        ELSE Norm([j \in 1..Len(c) |->
                    (c[j] \div b)
                    + (IF j < Len(c) THEN (c[j + 1] % b) * (Base \div b) ELSE 0)])

\* a is not a multiple of 2^n
Inexact(a, n) ==
    \/ \E j \in 1..Min(n \div LimbBits, Len(a)) : a[j] # 0
    \/ (n \div LimbBits) < Len(a) /\ a[(n \div LimbBits) + 1] % (2^(n % LimbBits)) # 0

\* the number of bits of a
BitLen(a) ==
    IF a = <<>> THEN 0
    ELSE LimbBits * (Len(a) - 1)
         + (CHOOSE k \in 1..LimbBits : 2^(k - 1) <= a[Len(a)] /\ a[Len(a)] < 2^k)

IsOdd(a) == a # <<>> /\ a[1] % 2 = 1

RECURSIVE Pow10(_)
Pow10(d) == IF d = 0 THEN <<1>> ELSE MulAdd(Pow10(d - 1), 10, 0)

\* floor(a / 10^d), and whether the division left a remainder
RECURSIVE DivPow10(_, _)
DivPow10(a, d) ==
    IF d = 0 \/ a = <<>> THEN [q |-> a, inexact |-> FALSE]
    ELSE LET one == DivSmall(a, 10)
         IN  IF one.r = 0 THEN DivPow10(one.q, d - 1)
             ELSE [q |-> DivPow10(one.q, d - 1).q, inexact |-> TRUE]

(***************************************************************************)
(* parseSize (generate.js 16-34).                                          *)
(***************************************************************************)
Digits == <<"0", "1", "2", "3", "4", "5", "6", "7", "8", "9">>

\* the characters the regular expression's \d matches
DigitChars == {Digits[d] : d \in 1..10}

DigitValue(c) == (CHOOSE d \in 1..10 : Digits[d] = c) - 1

\* the characters the regular expression's \s matches, among those modelled
WhiteSpace == {" ", "\t"}

\* String.prototype.toUpperCase on the letters of the units
ToUpperCase(s) ==
    [i \in 1..Len(s) |->
        CASE s[i] = "b" -> "B"
          [] s[i] = "k" -> "K"
          [] s[i] = "m" -> "M"
          [] s[i] = "g" -> "G"
          [] s[i] = "t" -> "T"
          [] OTHER -> s[i]]

Units == {<<"B">>, <<"K", "B">>, <<"M", "B">>, <<"G", "B">>, <<"T", "B">>}

\* the number of characters of s from position i on that are in class, up to
\* the first that is not (a greedy  X*  of the regular expression)
RECURSIVE RunLength(_, _, _)
RunLength(s, i, class) ==
    IF i > Len(s) \/ s[i] \notin class THEN 0 ELSE 1 + RunLength(s, i + 1, class)

\* SizeMatch with a regular expression that lets a minus sign through:
\* /^-?(\d+(?:\.\d+)?)\s*(B|KB|MB|GB|TB)?$/i
SizeMatchSigned(s) ==
    LET off   == IF s # <<>> /\ s[1] = "-" THEN 1 ELSE 0
        n1    == RunLength(s, off + 1, DigitChars)
        n2    == IF off + n1 + 1 <= Len(s) /\ s[off + n1 + 1] = "."
                 THEN RunLength(s, off + n1 + 2, DigitChars) ELSE 0
        numE  == IF n2 > 0 THEN off + n1 + 1 + n2 ELSE off + n1
        ws    == RunLength(s, numE + 1, WhiteSpace)
        rest  == SubSeq(s, numE + ws + 1, Len(s))
    IN  [matched |-> n1 > 0 /\ (rest = <<>> \/ ToUpperCase(rest) \in Units),
         whole   |-> SubSeq(s, off + 1, off + n1),
         frac    |-> IF n2 > 0 THEN SubSeq(s, off + n1 + 2, off + n1 + 1 + n2) ELSE <<>>,
         unit    |-> rest]

\* sizeStr.match(/^(\d+(?:\.\d+)?)\s*(B|KB|MB|GB|TB)?$/i): the groups of the
\* match, or matched = FALSE.  whole and frac are the digits before and after
\* the point of group 1, unit is group 2 (<<>> when it did not take part).
SizeMatch(s) ==
    LET n1    == RunLength(s, 1, DigitChars)
        n2    == IF n1 + 1 <= Len(s) /\ s[n1 + 1] = "."
                 THEN RunLength(s, n1 + 2, DigitChars) ELSE 0
        numE  == IF n2 > 0 THEN n1 + 1 + n2 ELSE n1
        ws    == RunLength(s, numE + 1, WhiteSpace)
        rest  == SubSeq(s, numE + ws + 1, Len(s))
    IN  [matched |-> n1 > 0 /\ (rest = <<>> \/ ToUpperCase(rest) \in Units),
         whole   |-> SubSeq(s, 1, n1),
         frac    |-> IF n2 > 0 THEN SubSeq(s, n1 + 2, n1 + 1 + n2) ELSE <<>>,
         unit    |-> rest]

\* the natural number a string of decimal digits denotes
RECURSIVE DecValue(_)
DecValue(ds) ==
    IF ds = <<>> THEN <<>>
    ELSE MulAdd(DecValue(SubSeq(ds, 1, Len(ds) - 1)), 10, DigitValue(ds[Len(ds)]))

\* the significand of a double has 53 bits
MantissaBits == 53

\* parseFloat on  whole[.frac] : the double nearest to the decimal number
\* N / 10^d (ties to even), as [m, e] with value m * 2^e.  Scaled(k) is
\* floor(N * 2^(k+1) / 10^d): the significand for the shift k and one more bit.
ParseFloat(whole, frac) ==
    LET N     == DecValue(whole \o frac)
        d     == Len(frac)
        sh0   == MantissaBits - (BitLen(N) - BitLen(Pow10(d)))
        Scaled(k) ==
            IF k + 1 >= 0 THEN DivPow10(Shl(N, k + 1), d)
            ELSE LET t == DivPow10(N, d)
                 IN  [q |-> Shr(t.q, 0 - (k + 1)),
                      inexact |-> t.inexact \/ Inexact(t.q, 0 - (k + 1))]
        shift == IF BitLen(Scaled(sh0).q) > MantissaBits + 1 THEN sh0 - 1 ELSE sh0
        y     == Scaled(shift)
        q     == Shr(y.q, 1)
        up    == IsOdd(y.q) /\ (y.inexact \/ IsOdd(q))
    IN  IF N = <<>> THEN [m |-> <<>>, e |-> 0]
        ELSE [m |-> IF up THEN MulAdd(q, 1, 1) ELSE q, e |-> 0 - shift]

\* the multipliers table (generate.js 25-31); every entry is a power of two,
\* kept as its exponent: 1024 = 2^10
Multipliers ==
    [u \in Units |->
        CASE u = <<"B">> -> 0
          [] u = <<"K", "B">> -> 10
          [] u = <<"M", "B">> -> 20
          [] u = <<"G", "B">> -> 30
          [] u = <<"T", "B">> -> 40]

\* value * multipliers[unit]: a double times a power of two is exact
TimesPow2(v, k) == [m |-> v.m, e |-> IF v.m = <<>> THEN 0 ELSE v.e + k]

\* Math.floor of a non-negative double, as a natural number
Floor(v) == IF v.e >= 0 THEN Shl(v.m, v.e) ELSE Shr(v.m, 0 - v.e)

\* parseSize(sizeStr): threw = TRUE for the "Invalid size format" error,
\* else bytes is the returned number
ParseSize(s) ==
    LET match == SizeMatch(s)
        value == ParseFloat(match.whole, match.frac)
        unit  == ToUpperCase(IF match.unit = <<>> THEN <<"B">> ELSE match.unit)
    IN  IF ~match.matched THEN [threw |-> TRUE, bytes |-> <<>>]
        ELSE [threw |-> FALSE, bytes |-> Floor(TimesPow2(value, Multipliers[unit]))]

(***************************************************************************)
(* Number arithmetic of the progress listener (generate.js 170):           *)
(* Math.floor((bytesWritten / targetBytes) * 100) on doubles.              *)
(***************************************************************************)
\* the double nearest to (n + f) * 2^e, ties to even, where f is a fraction
\* in [0, 1) that is not 0 exactly when sticky; n has at least
\* MantissaBits + 2 bits when sticky
RoundDouble(n, e, sticky) ==
    LET d    == BitLen(n) - MantissaBits
        q    == Shr(n, d)
        half == IsOdd(Shr(n, d - 1))
        rest == sticky \/ Inexact(n, d - 1)
        up   == half /\ (rest \/ IsOdd(q))
    IN  IF d <= 0 THEN [m |-> n, e |-> e]
        ELSE [m |-> IF up THEN MulAdd(q, 1, 1) ELSE q, e |-> e + d]

\* long division: acc followed by the next n binary digits of r / b
\* (0 <= r < b), and whether a remainder is left
RECURSIVE Quotient(_, _, _, _)
Quotient(acc, r, b, n) ==
    IF n = 0 \/ Len(acc) < 0 THEN [q |-> acc, sticky |-> r # 0]
    ELSE IF 2 * r >= b THEN Quotient(MulAdd(acc, 2, 1), 2 * r - b, b, n - 1)
    ELSE Quotient(MulAdd(acc, 2, 0), 2 * r, b, n - 1)

\* a / b for integers 0 <= a and 0 < b below 2^30
DivideDouble(a, b) ==
    LET z  == IF a >= b THEN 0 ELSE CHOOSE k \in 1..30 : a * 2^(k - 1) < b /\ a * 2^k >= b
        n  == MantissaBits + 2
        qs == Quotient(FromNat((a * 2^z) \div b), (a * 2^z) % b, b, n)
    IN  IF a = 0 THEN [m |-> <<>>, e |-> 0]
        ELSE RoundDouble(qs.q, 0 - n - z, qs.sticky)

\* v * k for a double v and a small integer k
TimesInt(v, k) == RoundDouble(MulAdd(v.m, k, 0), v.e, FALSE)

\* Math.floor((bytesWritten / targetBytes) * 100)
Progress(bytesWritten, targetBytes) ==
    ToNat(Floor(TimesInt(DivideDouble(bytesWritten, targetBytes), 100)))

(***************************************************************************)
(* JavaScript strings and buffers.                                         *)
(***************************************************************************)
\* A repeated string or a filled Buffer is kept as a period and a length: its
\* item k, counted from 0, is period[k mod |period|].  Literal(seq) is seq
\* itself in this form and Items(p) the items of p one by one.
Literal(seq) == [period |-> seq, length |-> Len(seq)]

Items(p) == [k \in 1..p.length |-> p.period[((k - 1) % Len(p.period)) + 1]]

\* String.prototype.repeat(n)
Repeat(str, n) == [period |-> str, length |-> Len(str) * n]

\* slice(0, end) of a string or of a Buffer, for end >= 0
Slice(p, end) == [period |-> p.period, length |-> Min(end, p.length)]

\* Math.ceil(a / b) for integers a >= 0 and b > 0
Ceil(a, b) == (a + b - 1) \div b

IsHighSurrogate(c) == 55296 <= c /\ c <= 56319

IsLowSurrogate(c) == 56320 <= c /\ c <= 57343

\* Buffer.from(str, 'utf8'), which push() applies to a string chunk: the UTF-8
\* bytes of the code units of str from position i on.  A surrogate pair is one
\* code point of four bytes; a surrogate without its partner becomes U+FFFD.
RECURSIVE Utf8From(_, _)
Utf8From(str, i) ==
    IF i > Len(str) THEN <<>>
    ELSE LET c == str[i]
         IN  IF c < 128 THEN <<c>> \o Utf8From(str, i + 1)
             ELSE IF c < 2048
             THEN <<192 + (c \div 64), 128 + (c % 64)>> \o Utf8From(str, i + 1)
             ELSE IF IsHighSurrogate(c) /\ i < Len(str) /\ IsLowSurrogate(str[i + 1])
             THEN LET cp == 65536 + (c - 55296) * 1024 + (str[i + 1] - 56320)
                  IN  <<240 + (cp \div 262144), 128 + ((cp \div 4096) % 64),
                        128 + ((cp \div 64) % 64), 128 + (cp % 64)>>
                      \o Utf8From(str, i + 2)
             ELSE IF IsHighSurrogate(c) \/ IsLowSurrogate(c)
             THEN <<239, 191, 189>> \o Utf8From(str, i + 1)
             ELSE <<224 + (c \div 4096), 128 + ((c \div 64) % 64), 128 + (c % 64)>>
                  \o Utf8From(str, i + 1)

Utf8(str) == Utf8From(str, 1)

(***************************************************************************)
(* TextDataGenerator (generate.js 46-82).                                  *)
(***************************************************************************)
\* an option that was not given (undefined), and a given string
Undefined == [given |-> FALSE, text |-> <<>>]

Str(text) == [given |-> TRUE, text |-> text]

\* undefined and the empty string are falsy
Falsy(opt) == ~opt.given \/ opt.text = <<>>

\* the built-in pattern (generate.js 54-58)
DefaultPattern ==
    \* 'Lorem ipsum dolor sit amet, consectetur adipiscing elit. '
    <<76, 111, 114, 101, 109, 32, 105, 112, 115, 117, 109, 32, 100,
       111, 108, 111, 114, 32, 115, 105, 116, 32, 97, 109, 101, 116, 44,
       32, 99, 111, 110, 115, 101, 99, 116, 101, 116, 117, 114, 32, 97,
       100, 105, 112, 105, 115, 99, 105, 110, 103, 32, 101, 108, 105,
       116, 46, 32>>
    \o
    \* 'Sed do eiusmod tempor incididunt ut labore et dolore magna aliqua. '
    <<83, 101, 100, 32, 100, 111, 32, 101, 105, 117, 115, 109, 111,
       100, 32, 116, 101, 109, 112, 111, 114, 32, 105, 110, 99, 105,
       100, 105, 100, 117, 110, 116, 32, 117, 116, 32, 108, 97, 98, 111,
       114, 101, 32, 101, 116, 32, 100, 111, 108, 111, 114, 101, 32,
       109, 97, 103, 110, 97, 32, 97, 108, 105, 113, 117, 97, 46, 32>>
    \o
    \* 'Ut enim ad minim veniam, quis nostrud exercitation ullamco laboris. '
    <<85, 116, 32, 101, 110, 105, 109, 32, 97, 100, 32, 109, 105, 110,
       105, 109, 32, 118, 101, 110, 105, 97, 109, 44, 32, 113, 117, 105,
       115, 32, 110, 111, 115, 116, 114, 117, 100, 32, 101, 120, 101,
       114, 99, 105, 116, 97, 116, 105, 111, 110, 32, 117, 108, 108, 97,
       109, 99, 111, 32, 108, 97, 98, 111, 114, 105, 115, 46, 32>>
    \o
    \* 'Duis aute irure dolor in reprehenderit in voluptate velit esse cillum. '
    <<68, 117, 105, 115, 32, 97, 117, 116, 101, 32, 105, 114, 117, 114,
       101, 32, 100, 111, 108, 111, 114, 32, 105, 110, 32, 114, 101,
       112, 114, 101, 104, 101, 110, 100, 101, 114, 105, 116, 32, 105,
       110, 32, 118, 111, 108, 117, 112, 116, 97, 116, 101, 32, 118,
       101, 108, 105, 116, 32, 101, 115, 115, 101, 32, 99, 105, 108,
       108, 117, 109, 46, 32>>
    \o
    \* 'Excepteur sint occaecat cupidatat non proident, sunt in culpa qui officia. '
    <<69, 120, 99, 101, 112, 116, 101, 117, 114, 32, 115, 105, 110,
       116, 32, 111, 99, 99, 97, 101, 99, 97, 116, 32, 99, 117, 112,
       105, 100, 97, 116, 97, 116, 32, 110, 111, 110, 32, 112, 114, 111,
       105, 100, 101, 110, 116, 44, 32, 115, 117, 110, 116, 32, 105,
       110, 32, 99, 117, 108, 112, 97, 32, 113, 117, 105, 32, 111, 102,
       102, 105, 99, 105, 97, 46, 32>>

DefaultChunkSize == 64 * 1024

\* TextDataGenerator that keeps the repeated pattern whole (no slice)
TextDataGeneratorNoSlice(targetSize, options) ==
    LET basePattern == (IF Falsy(options.pattern) THEN DefaultPattern
                        ELSE options.pattern.text) \o <<10>>
        chunkSize   == IF options.chunkSize = 0 THEN DefaultChunkSize
                       ELSE options.chunkSize
        repetitions == Ceil(chunkSize, Len(basePattern))
    IN  [kind        |-> "text",
         targetSize  |-> targetSize,
         generated   |-> 0,
         basePattern |-> basePattern,
         chunkSize   |-> chunkSize,
         chunk       |-> Repeat(basePattern, repetitions)]

\* TextDataGenerator without  this.basePattern += '\n'
TextDataGeneratorNoLineFeed(targetSize, options) ==
    LET basePattern == IF Falsy(options.pattern) THEN DefaultPattern
                       ELSE options.pattern.text
        chunkSize   == IF options.chunkSize = 0 THEN DefaultChunkSize
                       ELSE options.chunkSize
        repetitions == Ceil(chunkSize, Len(basePattern))
    IN  [kind        |-> "text",
         targetSize  |-> targetSize,
         generated   |-> 0,
         basePattern |-> basePattern,
         chunkSize   |-> chunkSize,
         chunk       |-> Slice(Repeat(basePattern, repetitions), chunkSize)]

\* new TextDataGenerator(targetSize, options)
TextDataGenerator(targetSize, options) ==
    LET basePattern == (IF Falsy(options.pattern) THEN DefaultPattern
                        ELSE options.pattern.text) \o <<10>>
        chunkSize   == IF options.chunkSize = 0 THEN DefaultChunkSize
                       ELSE options.chunkSize
        repetitions == Ceil(chunkSize, Len(basePattern))
    IN  [kind        |-> "text",
         targetSize  |-> targetSize,
         generated   |-> 0,
         basePattern |-> basePattern,
         chunkSize   |-> chunkSize,
         chunk       |-> Slice(Repeat(basePattern, repetitions), chunkSize)]

\* _read() that takes one character more than remains
\* (remaining = this.targetSize - this.generated + 1)
TextReadOneMore(g) ==
    IF g.generated >= g.targetSize
    THEN [generated |-> g.generated, eof |-> TRUE, data |-> Literal(<<>>)]
    ELSE LET remaining == g.targetSize - g.generated + 1
             toWrite   == Min(remaining, g.chunk.length)
             data      == Slice(g.chunk, toWrite)
         IN  [generated |-> g.generated + data.length, eof |-> FALSE, data |-> data]

\* what one call of _read() does: the new value of this.generated and the
\* argument of this.push (eof for push(null))
TextRead(g) ==
    IF g.generated >= g.targetSize
    THEN [generated |-> g.generated, eof |-> TRUE, data |-> Literal(<<>>)]
    ELSE LET remaining == g.targetSize - g.generated
             toWrite   == Min(remaining, g.chunk.length)
             data      == Slice(g.chunk, toWrite)
         IN  [generated |-> g.generated + data.length, eof |-> FALSE, data |-> data]

(***************************************************************************)
(* BinaryDataGenerator (generate.js 85-132).                               *)
(***************************************************************************)
\* the values of Math.floor(Math.random() * 256) that are explored
RandomBytes == {7, 200}

\* createBinaryPattern that fills with the sequence only for 'sequence' and
\* with zeros for any other name
CreateBinaryPatternByName(size, pattern) ==
    IF pattern = "random" THEN {Literal(b) : b \in [1..size -> RandomBytes]}
    ELSE IF pattern = "ones" THEN {[period |-> <<255>>, length |-> size]}
    ELSE IF pattern = "sequence"
    THEN LET sequence == <<0, 1, 2, 3, 4, 5, 6, 7, 8, 9, 10, 11, 12, 13, 14, 15>>
         IN  {[period |-> sequence, length |-> size]}
    ELSE {[period |-> <<0>>, length |-> size]}

\* createBinaryPattern whose 'zeros' branch leaves the buffer of
\* Buffer.allocUnsafe as it is
CreateBinaryPatternUnfilled(size, pattern) ==
    IF pattern = "random" THEN {Literal(b) : b \in [1..size -> RandomBytes]}
    ELSE IF pattern = "zeros" THEN {Literal(b) : b \in [1..size -> RandomBytes \cup {0}]}
    ELSE IF pattern = "ones" THEN {[period |-> <<255>>, length |-> size]}
    ELSE LET sequence == <<0, 1, 2, 3, 4, 5, 6, 7, 8, 9, 10, 11, 12, 13, 14, 15>>
         IN  {[period |-> sequence, length |-> size]}

\* createBinaryPattern(size, pattern): the buffers the call can return (more
\* than one only for 'random')
CreateBinaryPattern(size, pattern) ==
    IF pattern = "random" THEN {Literal(b) : b \in [1..size -> RandomBytes]}
    ELSE IF pattern = "zeros" THEN {[period |-> <<0>>, length |-> size]}
    ELSE IF pattern = "ones" THEN {[period |-> <<255>>, length |-> size]}
    ELSE LET sequence == <<0, 1, 2, 3, 4, 5, 6, 7, 8, 9, 10, 11, 12, 13, 14, 15>>
         IN  {[period |-> sequence, length |-> size]}

\* BinaryDataGenerator that does not pass the pattern on
\* (this.createBinaryPattern(this.chunkSize))
BinaryDataGeneratorNoPattern(targetSize, options) ==
    LET chunkSize == IF options.chunkSize = 0 THEN DefaultChunkSize
                     ELSE options.chunkSize
    IN  {[kind        |-> "binary",
          targetSize  |-> targetSize,
          generated   |-> 0,
          chunkSize   |-> chunkSize,
          chunk       |-> chunk] : chunk \in CreateBinaryPattern(chunkSize, "sequence")}

\* new BinaryDataGenerator(targetSize, options): the generators it can build
BinaryDataGenerator(targetSize, options) ==
    LET chunkSize == IF options.chunkSize = 0 THEN DefaultChunkSize
                     ELSE options.chunkSize
    IN  {[kind        |-> "binary",
          targetSize  |-> targetSize,
          generated   |-> 0,
          chunkSize   |-> chunkSize,
          chunk       |-> chunk] : chunk \in CreateBinaryPattern(chunkSize, options.pattern)}

\* _read() that counts the whole chunk (this.generated += this.chunk.length)
BinaryReadCountsChunk(g) ==
    IF g.generated >= g.targetSize
    THEN [generated |-> g.generated, eof |-> TRUE, data |-> Literal(<<>>)]
    ELSE LET remaining == g.targetSize - g.generated
             toWrite   == Min(remaining, g.chunk.length)
             data      == Slice(g.chunk, toWrite)
         IN  [generated |-> g.generated + g.chunk.length, eof |-> FALSE, data |-> data]

\* _read() that slices the chunk from its second byte
\* (this.chunk.slice(1, toWrite + 1), wrapping around)
BinaryReadFromSecond(g) ==
    IF g.generated >= g.targetSize
    THEN [generated |-> g.generated, eof |-> TRUE, data |-> Literal(<<>>)]
    ELSE LET remaining == g.targetSize - g.generated
             toWrite   == Min(remaining, g.chunk.length)
             data      == [period |-> Tail(g.chunk.period) \o <<Head(g.chunk.period)>>,
                           length |-> toWrite]
         IN  [generated |-> g.generated + data.length, eof |-> FALSE, data |-> data]

\* _read() that stops one chunk early (generated + chunk.length >= targetSize)
BinaryReadStopsEarly(g) ==
    IF g.generated + g.chunk.length >= g.targetSize
    THEN [generated |-> g.generated, eof |-> TRUE, data |-> Literal(<<>>)]
    ELSE LET remaining == g.targetSize - g.generated
             toWrite   == Min(remaining, g.chunk.length)
             data      == Slice(g.chunk, toWrite)
         IN  [generated |-> g.generated + data.length, eof |-> FALSE, data |-> data]

BinaryRead(g) ==
    IF g.generated >= g.targetSize
    THEN [generated |-> g.generated, eof |-> TRUE, data |-> Literal(<<>>)]
    ELSE LET remaining == g.targetSize - g.generated
             toWrite   == Min(remaining, g.chunk.length)
             data      == Slice(g.chunk, toWrite)
         IN  [generated |-> g.generated + data.length, eof |-> FALSE, data |-> data]

(***************************************************************************)
(* One command-line run: program.action (generate.js 209-227) calling      *)
(* generateData (135-194).  runs[i] is the state of run i:                 *)
(*   pc           where the run is                                         *)
(*   options      the command line (type, size, chunkSize, pattern,        *)
(*                binaryPattern)                                           *)
(*   chunkSize    the parsed --chunk-size, targetBytes the parsed --size   *)
(*   generator    the generator object, NoGenerator before construction    *)
(*   dirExists    mkdir has made the directory of the output file          *)
(*   reads        the number of calls of _read                             *)
(*   pushed       the length (data.length) of every chunk _read pushed     *)
(*   ended        push(null) was called                                    *)
(*   buffer       the chunks the streams hold, pushed and not yet written  *)
(*   listeners    the 'data' listeners of the generator, in the order of   *)
(*                their registration                                       *)
(*   bytesWritten, lastProgress   the variables of the progress listener   *)
(*   reports      what the progress listener did for every chunk it got    *)
(*   fileExists, file   the output file and the chunks written to it, in   *)
(*                order: its content is Bytes(file)                        *)
(*   error        the message of the error caught, "none" without one      *)
(***************************************************************************)
NoGenerator == [kind |-> "none"]

\* the stream stops calling _read while it holds this many bytes
HighWaterMark == 16 * 1024

InitialRun(options) ==
    [pc          |-> "action",
     options     |-> options,
     chunkSize   |-> 0,
     targetBytes |-> 0,
     dirExists   |-> FALSE,
     generator   |-> NoGenerator,
     reads       |-> 0,
     pushed      |-> <<>>,
     ended       |-> FALSE,
     buffer      |-> <<>>,
     listeners   |-> <<>>,
     bytesWritten |-> 0,
     lastProgress |-> 0,
     reports     |-> <<>>,
     fileExists  |-> FALSE,
     file        |-> <<>>,
     error       |-> "none"]

\* catch (error) { console.error(...); process.exit(1) }  (generate.js 223-226)
Exit1(run, message) == [run EXCEPT !.pc = "exit1", !.error = message]

\* const chunkSize = parseSize(options.chunkSize)  (generate.js 211)
ProgramAction(i) ==
    /\ runs[i].pc = "action"
    /\ LET res == ParseSize(runs[i].options.chunkSize)
       IN  runs' = [runs EXCEPT ![i] =
                IF res.threw THEN Exit1(@, "Invalid size format")
                ELSE [@ EXCEPT !.pc = "generateData", !.chunkSize = ToNat(res.bytes)]]
    /\ UNCHANGED <<sizeStr, parsed, bulk, destroy>>

\* const targetBytes = parseSize(size)  (generate.js 136-143)
GenerateData(i) ==
    /\ runs[i].pc = "generateData"
    /\ LET res == ParseSize(runs[i].options.size)
       IN  runs' = [runs EXCEPT ![i] =
                IF res.threw THEN Exit1(@, "Invalid size format")
                ELSE [@ EXCEPT !.pc = "create", !.targetBytes = ToNat(res.bytes)]]
    /\ UNCHANGED <<sizeStr, parsed, bulk, destroy>>

\* generateData that opens the output file before it looks at the type
CreateGeneratorAfterOpen(i) ==
    /\ runs[i].pc = "create"
    /\ LET run == runs[i]
       IN  \E g \in
               IF run.options.type = "text"
               THEN {TextDataGenerator(run.targetBytes,
                        [pattern |-> run.options.pattern, chunkSize |-> run.chunkSize])}
               ELSE IF run.options.type = "binary"
               THEN BinaryDataGenerator(run.targetBytes,
                        [pattern |-> run.options.binaryPattern, chunkSize |-> run.chunkSize])
               ELSE {NoGenerator} :
               runs' = [runs EXCEPT ![i] =
                   IF g = NoGenerator
                   THEN Exit1([@ EXCEPT !.dirExists = TRUE, !.fileExists = TRUE],
                              "Unknown type")
                   ELSE [@ EXCEPT !.pc = "open", !.dirExists = TRUE, !.generator = g]]
    /\ UNCHANGED <<sizeStr, parsed, bulk, destroy>>

\* mkdir, then the generator for the type  (generate.js 146-162)
CreateGenerator(i) ==
    /\ runs[i].pc = "create"
    /\ LET run == runs[i]
       IN  \E g \in
               IF run.options.type = "text"
               THEN {TextDataGenerator(run.targetBytes,
                        [pattern |-> run.options.pattern, chunkSize |-> run.chunkSize])}
               ELSE IF run.options.type = "binary"
               THEN BinaryDataGenerator(run.targetBytes,
                        [pattern |-> run.options.binaryPattern, chunkSize |-> run.chunkSize])
               ELSE {NoGenerator} :
               runs' = [runs EXCEPT ![i] =
                   IF g = NoGenerator
                   THEN Exit1([@ EXCEPT !.dirExists = TRUE], "Unknown type")
                   ELSE [@ EXCEPT !.pc = "open", !.dirExists = TRUE, !.generator = g]]
    /\ UNCHANGED <<sizeStr, parsed, bulk, destroy>>

\* generator.on('data', ...), createWriteStream(output) and
\* pipeline(generator, writeStream), which pipes the generator into the file
\* with a 'data' listener of its own: one synchronous block, no chunk flows
\* before its end  (generate.js 164-182)
StartPipeline(i) ==
    /\ runs[i].pc = "open"
    /\ runs' = [runs EXCEPT ![i] = [@ EXCEPT !.pc = "pipeline",
                                             !.listeners = <<"progress", "pipe">>,
                                             !.fileExists = TRUE]]
    /\ UNCHANGED <<sizeStr, parsed, bulk, destroy>>

\* the number of bytes of a sequence of chunks, and the bytes themselves
RECURSIVE SumLen(_)
SumLen(chunks) == IF chunks = <<>> THEN 0 ELSE chunks[1].length + SumLen(Tail(chunks))

RECURSIVE Bytes(_)
Bytes(chunks) == IF chunks = <<>> THEN <<>> ELSE Items(chunks[1]) \o Bytes(Tail(chunks))

\* _read() that also ends the stream in the call that pushes the last chunk
ReadAndEnd(i) ==
    /\ runs[i].pc = "pipeline"
    /\ ~runs[i].ended
    /\ SumLen(runs[i].buffer) < HighWaterMark
    /\ LET g   == runs[i].generator
           res == IF g.kind = "text" THEN TextRead(g) ELSE BinaryRead(g)
       IN  runs' = [runs EXCEPT ![i] =
                IF res.eof THEN [@ EXCEPT !.reads = @ + 1, !.ended = TRUE]
                ELSE [@ EXCEPT !.reads = @ + 1,
                               !.generator.generated = res.generated,
                               !.pushed = Append(@, res.data.length),
                               !.ended = res.generated >= g.targetSize,
                               !.buffer = Append(@, IF g.kind = "text"
                                                    THEN Literal(Utf8(Items(res.data)))
                                                    ELSE res.data)]]
    /\ UNCHANGED <<sizeStr, parsed, bulk, destroy>>

\* _read() that pushes null one call late: the first call made with nothing
\* left to generate pushes nothing
ReadEndsLate(i) ==
    /\ runs[i].pc = "pipeline"
    /\ ~runs[i].ended
    /\ SumLen(runs[i].buffer) < HighWaterMark
    /\ LET g   == runs[i].generator
           res == IF g.kind = "text" THEN TextRead(g) ELSE BinaryRead(g)
       IN  runs' = [runs EXCEPT ![i] =
                IF res.eof THEN [@ EXCEPT !.reads = @ + 1,
                                          !.ended = runs[i].reads > Len(runs[i].pushed)]
                ELSE [@ EXCEPT !.reads = @ + 1,
                               !.generator.generated = res.generated,
                               !.pushed = Append(@, res.data.length),
                               !.buffer = Append(@, IF g.kind = "text"
                                                    THEN Literal(Utf8(Items(res.data)))
                                                    ELSE res.data)]]
    /\ UNCHANGED <<sizeStr, parsed, bulk, destroy>>

\* _read() that starts over when nothing is left: it pushes null and sets
\* this.generated back to 0
ReadRestarts(i) ==
    /\ runs[i].pc = "pipeline"
    /\ ~runs[i].ended
    /\ SumLen(runs[i].buffer) < HighWaterMark
    /\ LET g   == runs[i].generator
           res == IF g.kind = "text" THEN TextRead(g) ELSE BinaryRead(g)
       IN  runs' = [runs EXCEPT ![i] =
                IF res.eof THEN [@ EXCEPT !.reads = @ + 1, !.ended = TRUE,
                                          !.generator.generated = 0]
                ELSE [@ EXCEPT !.reads = @ + 1,
                               !.generator.generated = res.generated,
                               !.pushed = Append(@, res.data.length),
                               !.buffer = Append(@, IF g.kind = "text"
                                                    THEN Literal(Utf8(Items(res.data)))
                                                    ELSE res.data)]]
    /\ UNCHANGED <<sizeStr, parsed, bulk, destroy>>

\* the stream calls _read() while it has not ended and holds less than
\* HighWaterMark bytes; this.push(data) queues the chunk (a string as its UTF-8
\* bytes), this.push(null) ends the stream
Read(i) ==
    /\ runs[i].pc = "pipeline"
    /\ ~runs[i].ended
    /\ SumLen(runs[i].buffer) < HighWaterMark
    /\ LET g   == runs[i].generator
           res == IF g.kind = "text" THEN TextRead(g) ELSE BinaryRead(g)
       IN  runs' = [runs EXCEPT ![i] =
                IF res.eof THEN [@ EXCEPT !.reads = @ + 1, !.ended = TRUE]
                ELSE [@ EXCEPT !.reads = @ + 1,
                               !.generator.generated = res.generated,
                               !.pushed = Append(@, res.data.length),
                               !.buffer = Append(@, IF g.kind = "text"
                                                    THEN Literal(Utf8(Items(res.data)))
                                                    ELSE res.data)]]
    /\ UNCHANGED <<sizeStr, parsed, bulk, destroy>>

\* the progress listener (generate.js 168-178) called with a chunk, a Buffer
ProgressListener(run, chunk) ==
    LET bytesWritten == run.bytesWritten + chunk.length
        progress     == Progress(bytesWritten, run.targetBytes)
        report       == progress >= run.lastProgress + 10 \/ bytesWritten = run.targetBytes
    IN  [run EXCEPT !.bytesWritten = bytesWritten,
                    !.lastProgress = IF report THEN progress ELSE @,
                    !.reports = Append(@, [bytesWritten |-> bytesWritten,
                                           progress     |-> progress,
                                           written      |-> report])]

\* the 'data' listener of the pipe: the chunk goes to the write stream and
\* from there to the file
PipeListener(run, chunk) == [run EXCEPT !.file = Append(@, chunk)]

\* emit('data', chunk): the listeners are called in the order of registration
RECURSIVE EmitData(_, _, _)
EmitData(run, listeners, chunk) ==
    IF listeners = <<>> THEN run
    ELSE EmitData(IF listeners[1] = "progress" THEN ProgressListener(run, chunk)
                  ELSE PipeListener(run, chunk),
                  Tail(listeners), chunk)

\* a stream whose first chunk flows before the pipe is attached: only the
\* progress listener gets it
WriteBeforePipe(i) ==
    /\ runs[i].pc = "pipeline"
    /\ runs[i].buffer # <<>>
    /\ runs' = [runs EXCEPT ![i] =
            EmitData([@ EXCEPT !.buffer = Tail(@)],
                     IF runs[i].reports = <<>> THEN <<"progress">> ELSE runs[i].listeners,
                     runs[i].buffer[1])]
    /\ UNCHANGED <<sizeStr, parsed, bulk, destroy>>

\* the oldest chunk held flows: every 'data' listener gets it, and through
\* the pipe it is written to the file
Write(i) ==
    /\ runs[i].pc = "pipeline"
    /\ runs[i].buffer # <<>>
    /\ runs' = [runs EXCEPT ![i] =
            EmitData([@ EXCEPT !.buffer = Tail(@)], runs[i].listeners, runs[i].buffer[1])]
    /\ UNCHANGED <<sizeStr, parsed, bulk, destroy>>

\* how much of a chunk a failing write may leave in the file: nothing, or
\* all but its last byte
PartialWrites(chunk) == {0, chunk.length - 1} \cap 0..(chunk.length - 1)

\* a failing write that also removes the output file
WriteFailAndUnlink(i) ==
    /\ runs[i].pc = "pipeline"
    /\ runs[i].buffer # <<>>
    /\ runs' = [runs EXCEPT ![i] =
            Exit1([@ EXCEPT !.fileExists = FALSE, !.file = <<>>], "Write failed")]
    /\ UNCHANGED <<sizeStr, parsed, bulk, destroy>>

\* the oldest chunk held flows, and its write fails: the write stream emits
\* 'error', pipeline() destroys the generator and rejects, and program.action
\* catches the error  (generate.js 182, 223-226)
WriteFail(i) ==
    /\ runs[i].pc = "pipeline"
    /\ runs[i].buffer # <<>>
    /\ \E n \in PartialWrites(runs[i].buffer[1]) :
          runs' = [runs EXCEPT ![i] =
              Exit1([ProgressListener([@ EXCEPT !.buffer = Tail(@)], runs[i].buffer[1]) EXCEPT
                        !.file = IF n = 0 THEN @
                                 ELSE Append(@, Slice(runs[i].buffer[1], n))],
                    "Write failed")]
    /\ UNCHANGED <<sizeStr, parsed, bulk, destroy>>

\* the stream has ended and everything is written: pipeline() resolves and
\* generateData returns  (generate.js 182-193)
Complete(i) ==
    /\ runs[i].pc = "pipeline"
    /\ runs[i].ended
    /\ runs[i].buffer = <<>>
    /\ runs' = [runs EXCEPT ![i] = [@ EXCEPT !.pc = "done"]]
    /\ UNCHANGED <<sizeStr, parsed, bulk, destroy>>

Next ==
    \E i \in DOMAIN runs :
        \/ ProgramAction(i)
        \/ GenerateData(i)
        \/ CreateGenerator(i)
        \/ StartPipeline(i)
        \/ Read(i)
        \/ Write(i)
        \/ WriteFail(i)
        \/ Complete(i)

(***************************************************************************)
(* The command lines explored.                                             *)
(***************************************************************************)
\* the largest --size and --chunk-size of the runs with small chunks
MaxTarget == 11

MaxChunk == 4

\* the decimal numeral of n
RECURSIVE Dec(_)
Dec(n) == IF n < 10 THEN <<Digits[n + 1]>> ELSE Dec(n \div 10) \o <<Digits[(n % 10) + 1]>>

Bogus == <<"b", "o", "g", "u", "s">>

\* -p: not given, "", "AB", "e" with an acute accent (U+00E9, two bytes in
\* UTF-8) and the emoji U+1F600 (a surrogate pair, four bytes in UTF-8)
TextPatterns ==
    {Undefined, Str(<<>>), Str(<<65, 66>>), Str(<<233>>), Str(<<55357, 56832>>)}

\* -b: the four documented values and a misspelt one
BinaryPatterns == {"sequence", "random", "zeros", "ones", "sequential"}

Sizes == {Dec(n) : n \in 0..MaxTarget} \cup {<<"-", "1">>, Bogus}

SmallChunks == {Dec(n) : n \in 1..MaxChunk} \cup {<<"-", "2">>, Bogus}

\* chunk sizes that select the default of 64 KB
DefaultChunks == {<<"6", "4", "K", "B">>, <<"0">>, <<"0", ".", "5">>}

Kinds ==
    {[type |-> "text", pattern |-> p, binaryPattern |-> "sequence"] : p \in TextPatterns}
    \cup {[type |-> "binary", pattern |-> Undefined, binaryPattern |-> b] :
            b \in BinaryPatterns}
    \cup {[type |-> "image", pattern |-> Undefined, binaryPattern |-> "sequence"]}

Options(kind, size, chunkSize) ==
    [type |-> kind.type, size |-> size, chunkSize |-> chunkSize,
     pattern |-> kind.pattern, binaryPattern |-> kind.binaryPattern]

\* every kind, size and small chunk size; the default chunk size with the
\* smallest and largest sizes and without 'random'; the documentation's
\* example of 150000 bytes in chunks of 64 KB; and 10 characters of a text
\* pattern in one chunk
CommandLines ==
    {Options(k, s, c) : k \in Kinds, s \in Sizes, c \in SmallChunks}
    \cup {Options(k, s, c) : k \in {x \in Kinds : x.binaryPattern # "random"},
                             s \in {Dec(0), Dec(MaxTarget), <<"-", "1">>},
                             c \in DefaultChunks}
    \cup {Options(k, <<"1", "5", "0", "0", "0", "0">>, <<"6", "4", "K", "B">>) :
            k \in {x \in Kinds : x.type = "binary" /\ x.binaryPattern \in {"zeros", "sequence"}}}
    \cup {Options(k, Dec(10), <<"6", "4", "K", "B">>) : k \in {x \in Kinds : x.type = "text"}}

Init ==
    /\ runs \in [{1} -> {InitialRun(o) : o \in CommandLines}]
    /\ sizeStr = <<>>
    /\ parsed = [called |-> FALSE]
    /\ bulk = NoScript
    /\ destroy = NoScript

Spec == Init /\ [][Next]_vars

(***************************************************************************)
(* A run whose streams keep going.  In flowing mode the generator is asked *)
(* for the next chunk whenever it has not ended and holds less than        *)
(* HighWaterMark (weak fairness of Read), and a chunk held is handed to    *)
(* the listeners (weak fairness of Write, written out with the condition   *)
(* under which Write can happen).                                          *)
(***************************************************************************)
\* the largest --size and --chunk-size of these runs
MaxTargetLive == 5

MaxChunkLive == 2

\* every kind with small sizes and chunk sizes, and 150000 bytes in chunks of
\* 64 KB, more than the stream holds at once
CommandLinesLive ==
    {Options(k, s, c) : k \in Kinds,
                        s \in {Dec(n) : n \in 0..MaxTargetLive} \cup {Bogus},
                        c \in {Dec(n) : n \in 1..MaxChunkLive} \cup {Bogus}}
    \cup {Options(k, <<"1", "5", "0", "0", "0", "0">>, <<"6", "4", "K", "B">>) :
            k \in {x \in Kinds : x.type = "binary" /\ x.binaryPattern = "zeros"}}

InitLive ==
    /\ runs \in [{1} -> {InitialRun(o) : o \in CommandLinesLive}]
    /\ sizeStr = <<>>
    /\ parsed = [called |-> FALSE]
    /\ bulk = NoScript
    /\ destroy = NoScript

\* a chunk is held and can flow
CanWrite == runs[1].pc = "pipeline" /\ runs[1].buffer # <<>>

\* WF_vars(Write(1))
WritesKeepFlowing == []<>(~CanWrite) \/ []<><<Write(1)>>_vars

SpecLive == InitLive /\ [][Next]_vars /\ WF_vars(Read(1)) /\ WritesKeepFlowing

(***************************************************************************)
(* Two runs of the same command line, side by side.                        *)
(***************************************************************************)
MaxTargetTwo == 3

MaxChunkTwo == 2

CommandLinesTwo ==
    {Options(k, s, c) : k \in Kinds,
                        s \in {Dec(n) : n \in 0..MaxTargetTwo} \cup {Bogus},
                        c \in {Dec(n) : n \in 1..MaxChunkTwo}}

InitTwoRuns ==
    /\ runs \in {[i \in {1, 2} |-> InitialRun(o)] : o \in CommandLinesTwo}
    /\ sizeStr = <<>>
    /\ parsed = [called |-> FALSE]
    /\ bulk = NoScript
    /\ destroy = NoScript

SpecTwoRuns == InitTwoRuns /\ [][Next]_vars

(***************************************************************************)
(* A stand-alone call of parseSize on one string.                          *)
(***************************************************************************)
\* the longest size string drawn from the alphabet
MaxStrLen == 4

SizeAlphabet == {"0", "1", "5", ".", " ", "\t", "-", "e", "B", "b", "K", "M", "G", "T"}

Nines(n) == [i \in 1..n |-> "9"]

\* size strings beyond MaxStrLen: the examples of the documentation and
\* numbers with more significant digits than a double holds
SizeExamples ==
    { <<"1", "0", "0", "M", "B">>, <<"1", ".", "5", "G", "B">>, <<"5", "0", "0">>,
      <<"5", "0", "0", "K", "B">>, <<"2", "T", "B">>, <<"b", "o", "g", "u", "s">>,
      <<"1", "0", " ", " ", "M", "B">>, <<"1", "0", " ", "M", "B">>,
      <<"1", "0", "\t", "\t", "m", "b">>, <<"1", "5", "0", "0", "0", "0">>,
      <<"0", ".", "0", "0", "1", "T", "B">>,
      <<"0", ".">> \o Nines(16) \o <<"K", "B">>,
      <<"0", ".">> \o Nines(17) \o <<"K", "B">>,
      <<"9", "0", "0", "7", "1", "9", "9", "2", "5", "4", "7", "4", "0", "9", "9", "2">>,
      <<"9", "0", "0", "7", "1", "9", "9", "2", "5", "4", "7", "4", "0", "9", "9", "3">> }

SizeStrings ==
    UNION {[1..n -> SizeAlphabet] : n \in 0..MaxStrLen} \cup SizeExamples

NotCalled == [called |-> FALSE]

NoRuns == <<>>

InitParse ==
    /\ sizeStr \in SizeStrings
    /\ parsed = NotCalled
    /\ runs = NoRuns
    /\ bulk = NoScript
    /\ destroy = NoScript

CallParseSize ==
    /\ parsed = NotCalled
    /\ LET res == ParseSize(sizeStr)
       IN  parsed' = [called |-> TRUE, threw |-> res.threw, bytes |-> res.bytes]
    /\ UNCHANGED <<sizeStr, runs, bulk, destroy>>

NextParse == CallParseSize

SpecParse == InitParse /\ [][NextParse]_vars


(***************************************************************************)
(* infra/destroy.sh.  destroy is the state of one run of the script:       *)
(*   pc            where the run is, "exit" once it has exited             *)
(*   name          RESOURCE_GROUP_NAME                                     *)
(*   azInstalled, loggedIn, groupExists   what the script finds            *)
(*   typed         the lines typed on standard input, stdin those not yet  *)
(*                 read                                                    *)
(*   CONFIRM, CONFIRM_NAME   the variables read                            *)
(*   listed        az resource list has succeeded                          *)
(*   deletions     how many times az group delete was issued               *)
(*   created       az group create has run after the deletion              *)
(*   status        the exit status, -1 while the script runs               *)
(* A string is a sequence of one-character strings.                        *)
(***************************************************************************)
\* the characters of IFS that read strips: space and tab
Blank == {" ", "\t"}

RECURSIVE StripLeft(_)
StripLeft(line) ==
    IF line # <<>> /\ line[1] \in Blank THEN StripLeft(Tail(line)) ELSE line

\* a blank at the end is kept when a backslash precedes it
RECURSIVE StripRight(_)
StripRight(line) ==
    IF line # <<>> /\ line[Len(line)] \in Blank
          /\ ~(Len(line) >= 2 /\ line[Len(line) - 1] = "\\")
    THEN StripRight(SubSeq(line, 1, Len(line) - 1))
    ELSE line

\* a backslash is dropped and the character after it kept
RECURSIVE Unescape(_)
Unescape(line) ==
    IF line = <<>> THEN <<>>
    ELSE IF line[1] = "\\" THEN SubSeq(line, 2, 2) \o Unescape(SubSeq(line, 3, Len(line)))
    ELSE <<line[1]>> \o Unescape(Tail(line))

\* read -p "..." NAME, without -r: the value NAME gets from a line
ReadValue(line) == Unescape(StripRight(StripLeft(line)))

Yes == <<"y", "e", "s">>

DefaultGroupName == <<"d", "a", "t", "a", "-", "g", "r", "a", "v", "-", "r", "g">>

\* exit n
DestroyExit(d, n) == [d EXCEPT !.pc = "exit", !.status = n]

\* if ! command -v az  (destroy.sh 19-22)
CheckAzInstalled ==
    /\ destroy.pc = "az"
    /\ destroy' = IF destroy.azInstalled THEN [destroy EXCEPT !.pc = "login"]
                  ELSE DestroyExit(destroy, 1)
    /\ UNCHANGED <<runs, sizeStr, parsed, bulk>>

\* az account show || { ...; exit 1; }  (destroy.sh 25-29)
CheckLoggedIn ==
    /\ destroy.pc = "login"
    /\ destroy' = IF destroy.loggedIn THEN [destroy EXCEPT !.pc = "exists"]
                  ELSE DestroyExit(destroy, 1)
    /\ UNCHANGED <<runs, sizeStr, parsed, bulk>>

\* if ! az group exists --name ... | grep -q true  (destroy.sh 32-35); the
\* command prints true only for a group that exists, and nothing when it fails
CheckGroupExists ==
    /\ destroy.pc = "exists"
    /\ \E printsTrue \in {destroy.groupExists, FALSE} :
          destroy' = IF printsTrue THEN [destroy EXCEPT !.pc = "list"]
                     ELSE DestroyExit(destroy, 0)
    /\ UNCHANGED <<runs, sizeStr, parsed, bulk>>

\* az resource list, under set -e  (destroy.sh 43)
ListResources ==
    /\ destroy.pc = "list"
    /\ \E ok \in BOOLEAN :
          destroy' = IF ok THEN [destroy EXCEPT !.pc = "confirm", !.listed = TRUE]
                     ELSE DestroyExit(destroy, 1)
    /\ UNCHANGED <<runs, sizeStr, parsed, bulk>>

\* read CONFIRM and the test of it  (destroy.sh 47-51); read fails at the end
\* of the input and set -e ends the script
ReadConfirm ==
    /\ destroy.pc = "confirm"
    /\ destroy' =
          IF destroy.stdin = <<>> THEN DestroyExit(destroy, 1)
          ELSE LET CONFIRM == ReadValue(Head(destroy.stdin))
                   d       == [destroy EXCEPT !.stdin = Tail(@), !.CONFIRM = CONFIRM]
               IN  IF CONFIRM # Yes THEN DestroyExit(d, 0)
                   ELSE [d EXCEPT !.pc = "name"]
    /\ UNCHANGED <<runs, sizeStr, parsed, bulk>>

\* read CONFIRM_NAME and the test of it  (destroy.sh 54-58)
ReadConfirmName ==
    /\ destroy.pc = "name"
    /\ destroy' =
          IF destroy.stdin = <<>> THEN DestroyExit(destroy, 1)
          ELSE LET CONFIRM_NAME == ReadValue(Head(destroy.stdin))
                   d == [destroy EXCEPT !.stdin = Tail(@), !.CONFIRM_NAME = CONFIRM_NAME]
               IN  IF CONFIRM_NAME # destroy.name THEN DestroyExit(d, 1)
                   ELSE [d EXCEPT !.pc = "delete"]
    /\ UNCHANGED <<runs, sizeStr, parsed, bulk>>

\* az group delete --yes --no-wait, under set -e  (destroy.sh 65-68)
DeleteGroup ==
    /\ destroy.pc = "delete"
    /\ \E ok \in BOOLEAN :
          destroy' = IF ok THEN [destroy EXCEPT !.pc = "parameters", !.deletions = @ + 1]
                     ELSE DestroyExit([destroy EXCEPT !.deletions = @ + 1], 1)
    /\ UNCHANGED <<runs, sizeStr, parsed, bulk>>

\* the file goes on with a deployment (destroy.sh 80-227): the checks of az
\* and of the login pass again, then the parameters file is looked for
\* (destroy.sh 99-127)
CheckParametersFile ==
    /\ destroy.pc = "parameters"
    /\ \E found \in BOOLEAN :
          destroy' = IF found THEN [destroy EXCEPT !.pc = "create"]
                     ELSE DestroyExit(destroy, 1)
    /\ UNCHANGED <<runs, sizeStr, parsed, bulk>>

\* az group create, under set -e  (destroy.sh 131-135)
CreateGroup ==
    /\ destroy.pc = "create"
    /\ \E ok \in BOOLEAN :
          destroy' = IF ok THEN [destroy EXCEPT !.pc = "deployment", !.created = TRUE]
                     ELSE DestroyExit(destroy, 1)
    /\ UNCHANGED <<runs, sizeStr, parsed, bulk>>

\* az deployment group validate and create, and the outputs  (destroy.sh
\* 139-226)
DeployTemplate ==
    /\ destroy.pc = "deployment"
    /\ \E ok \in BOOLEAN : destroy' = DestroyExit(destroy, IF ok THEN 0 ELSE 1)
    /\ UNCHANGED <<runs, sizeStr, parsed, bulk>>

NextDestroy ==
    \/ CheckAzInstalled
    \/ CheckLoggedIn
    \/ CheckGroupExists
    \/ ListResources
    \/ ReadConfirm
    \/ ReadConfirmName
    \/ DeleteGroup
    \/ CheckParametersFile
    \/ CreateGroup
    \/ DeployTemplate

\* the names of the resource group tried: the default and another
GroupNames == {DefaultGroupName, <<"r", "g">>}

\* answers to the first prompt
ConfirmLines ==
    {Yes, <<" ", "y", "e", "s">>, <<"y", "e", "s", " ">>, <<"y", "\\", "e", "s">>,
     <<"Y", "e", "s">>, <<"y">>, <<"n", "o">>, <<>>}

\* answers to the second prompt
NameLines ==
    GroupNames \cup {<<"\t">> \o n \o <<" ">> : n \in GroupNames} \cup {Yes, <<>>}

\* the input: nothing, one line or two
Typings ==
    {<<>>} \cup {<<a>> : a \in ConfirmLines}
           \cup {<<a, b>> : a \in ConfirmLines, b \in NameLines}

InitDestroy ==
    /\ runs = NoRuns
    /\ sizeStr = <<>>
    /\ parsed = NotCalled
    /\ bulk = NoScript
    /\ \E name \in GroupNames, typed \in Typings,
          azInstalled \in BOOLEAN, loggedIn \in BOOLEAN, groupExists \in BOOLEAN :
          destroy = [pc           |-> "az",
                     name         |-> name,
                     azInstalled  |-> azInstalled,
                     loggedIn     |-> loggedIn,
                     groupExists  |-> groupExists,
                     typed        |-> typed,
                     stdin        |-> typed,
                     CONFIRM      |-> <<>>,
                     CONFIRM_NAME |-> <<>>,
                     listed       |-> FALSE,
                     deletions    |-> 0,
                     created      |-> FALSE,
                     status       |-> -1]

SpecDestroy == InitDestroy /\ [][NextDestroy]_vars

(***************************************************************************)
(* src/data-generator/bulk-upload.sh.  bulk is the state of one run of the *)
(* script:                                                                 *)
(*   pc            where the run is: "trap" when it is exiting and the     *)
(*                 EXIT trap has yet to run, "exit" after it               *)
(*   NUM_FILES, KEEP_LOCAL   the settings of the run                       *)
(*   missing       the first prerequisite that is not met, "none" if all   *)
(*                 are                                                     *)
(*   stdin         the lines typed on standard input and not yet read      *)
(*   REPLY         the line read by confirm_execution                      *)
(*   tempDirExisted   TEMP_DIR was there before the run                    *)
(*   stale         the file numbers whose $filepath was there before the   *)
(*                 run                                                     *)
(*   tempDir       TEMP_DIR is a directory now                             *)
(*   local         for each file number what $filepath holds: "absent",    *)
(*                 "stale" (left by something before the run), "partial"   *)
(*                 or "complete" (written by the generator of this run)    *)
(*   generated     the file numbers whose file the generator of this run   *)
(*                 wrote in full                                           *)
(*   uploaded      the file numbers whose upload succeeded                 *)
(*   i, success_count, failed_count   the variables of main                *)
(*   log           the steps of process_file taken, <<file number, step>>  *)
(*   status        the exit status, -1 while the script runs               *)
(***************************************************************************)
\* exit n, or the end of the script: the EXIT trap runs next
BulkExit(b, n) == [b EXCEPT !.pc = "trap", !.status = n]

\* [[ $REPLY =~ ^[Yy][Ee][Ss]$ ]]
ReplyIsYes(REPLY) ==
    /\ Len(REPLY) = 3
    /\ REPLY[1] \in {"y", "Y"}
    /\ REPLY[2] \in {"e", "E"}
    /\ REPLY[3] \in {"s", "S"}

\* check_prerequisites: the first prerequisite missing ends the run with 1
CheckPrerequisites ==
    /\ bulk.pc = "prerequisites"
    /\ bulk' = IF bulk.missing = "none" THEN [bulk EXCEPT !.pc = "confirm"]
               ELSE BulkExit(bulk, 1)
    /\ UNCHANGED <<runs, sizeStr, parsed, destroy>>

\* confirm_execution: read -r fills REPLY with the line as typed; at the end
\* of the input read fails and set -e ends the script
ConfirmExecution ==
    /\ bulk.pc = "confirm"
    /\ bulk' =
          IF bulk.stdin = <<>> THEN BulkExit(bulk, 1)
          ELSE LET b == [bulk EXCEPT !.REPLY = Head(bulk.stdin), !.stdin = Tail(@)]
               IN  IF ~ReplyIsYes(b.REPLY) THEN BulkExit(b, 0)
                   ELSE [b EXCEPT !.pc = "mkdir"]
    /\ UNCHANGED <<runs, sizeStr, parsed, destroy>>

\* the head of the for loop of main: file i is next, or the loop is over
LoopOrCleanup(b) ==
    IF b.i <= b.NUM_FILES THEN [b EXCEPT !.pc = "generate"]
    ELSE [b EXCEPT !.pc = "cleanup"]

\* create_temp_directory, under set -e, and the start of the loop
CreateTempDirectory ==
    /\ bulk.pc = "mkdir"
    /\ \E ok \in BOOLEAN :
          bulk' = IF bulk.tempDir THEN LoopOrCleanup(bulk)
                  ELSE IF ok THEN LoopOrCleanup([bulk EXCEPT !.tempDir = TRUE])
                  ELSE BulkExit(bulk, 1)
    /\ UNCHANGED <<runs, sizeStr, parsed, destroy>>

\* what node generate.js leaves at $filepath: nothing new when it fails before
\* it opens the file, a part of the file when a write fails, the file
GeneratorOutcomes == {"none", "partial", "complete"}

\* process_file returned 1: the else branch of main and the next turn
FileFailed(b) ==
    LoopOrCleanup([b EXCEPT !.failed_count = @ + 1, !.i = @ + 1])

\* process_file returned 0: the then branch of main and the next turn
FileSucceeded(b) ==
    LoopOrCleanup([b EXCEPT !.success_count = @ + 1, !.i = @ + 1])

\* process_file up to the test of the file: the status of node is not looked at
GenerateFile ==
    /\ bulk.pc = "generate"
    /\ \E outcome \in GeneratorOutcomes :
          LET b == [bulk EXCEPT
                       !.local[bulk.i] = IF outcome = "none" THEN @ ELSE outcome,
                       !.generated = IF outcome = "complete" THEN @ \cup {bulk.i} ELSE @,
                       !.log = Append(@, <<bulk.i, "generate">>)]
          IN  bulk' = IF b.local[b.i] = "absent" THEN FileFailed(b)
                      ELSE [b EXCEPT !.pc = "upload"]
    /\ UNCHANGED <<runs, sizeStr, parsed, destroy>>

\* process_file that logs the removal of the local file and leaves the file
\* where it is
UploadFileNoRemove ==
    /\ bulk.pc = "upload"
    /\ \E ok \in BOOLEAN :
          LET b == [bulk EXCEPT
                       !.uploaded = IF ok THEN @ \cup {bulk.i} ELSE @,
                       !.log = Append(@, <<bulk.i, IF ok THEN "upload" ELSE "upload failed">>)]
              c == IF b.KEEP_LOCAL = "false"
                   THEN [b EXCEPT !.log = Append(@, <<b.i, "delete">>)]
                   ELSE b
          IN  bulk' = FileSucceeded(c)
    /\ UNCHANGED <<runs, sizeStr, parsed, destroy>>

\* process_file from az storage blob upload to return 0: called in the
\* condition of an if, the function goes on when the upload fails
UploadFile ==
    /\ bulk.pc = "upload"
    /\ \E ok \in BOOLEAN :
          LET b == [bulk EXCEPT
                       !.uploaded = IF ok THEN @ \cup {bulk.i} ELSE @,
                       !.log = Append(@, <<bulk.i, IF ok THEN "upload" ELSE "upload failed">>)]
              c == IF b.KEEP_LOCAL = "false"
                   THEN [b EXCEPT !.local[b.i] = "absent",
                                  !.log = Append(@, <<b.i, "delete">>)]
                   ELSE b
          IN  bulk' = FileSucceeded(c)
    /\ UNCHANGED <<runs, sizeStr, parsed, destroy>>

\* cleanup_temp_directory: rm -rf "$TEMP_DIR" unless the files are kept
CleanupTempDirectory(b) ==
    IF b.KEEP_LOCAL = "false" /\ b.tempDir
    THEN [b EXCEPT !.tempDir = FALSE,
                   !.local = [n \in DOMAIN b.local |-> "absent"]]
    ELSE b

\* the cleanup and the statistics of main
Cleanup ==
    /\ bulk.pc = "cleanup"
    /\ bulk' = [CleanupTempDirectory(bulk) EXCEPT !.pc = "verify"]
    /\ UNCHANGED <<runs, sizeStr, parsed, destroy>>

\* verify_uploads, under set -e, and the summary
VerifyUploads ==
    /\ bulk.pc = "verify"
    /\ \E ok \in BOOLEAN : bulk' = BulkExit(bulk, IF ok THEN 0 ELSE 1)
    /\ UNCHANGED <<runs, sizeStr, parsed, destroy>>

\* trap cleanup_temp_directory EXIT
ExitTrap ==
    /\ bulk.pc = "trap"
    /\ bulk' = [CleanupTempDirectory(bulk) EXCEPT !.pc = "exit"]
    /\ UNCHANGED <<runs, sizeStr, parsed, destroy>>

NextBulk ==
    \/ CheckPrerequisites
    \/ ConfirmExecution
    \/ CreateTempDirectory
    \/ GenerateFile
    \/ UploadFile
    \/ Cleanup
    \/ VerifyUploads
    \/ ExitTrap

\* the largest NUM_FILES tried
MaxFiles == 2

Prerequisites == {"none", "node", "az", "login", "generate.js", "account"}

\* lines typed at the prompt of confirm_execution
Replies ==
    {Yes, <<"Y", "E", "S">>, <<"y", "E", "s">>, <<" ", "y", "e", "s">>,
     <<"y">>, <<"n", "o">>, <<>>}

InitBulk ==
    /\ runs = NoRuns
    /\ sizeStr = <<>>
    /\ parsed = NotCalled
    /\ destroy = NoScript
    /\ \E NUM_FILES \in 0..MaxFiles, KEEP_LOCAL \in {"false", "true"},
          missing \in Prerequisites,
          stdin \in {<<>>} \cup {<<r>> : r \in Replies},
          tempDirExisted \in BOOLEAN :
       \E stale \in IF tempDirExisted THEN SUBSET (1..Min(NUM_FILES, 1)) ELSE {{}} :
          bulk = [pc             |-> "prerequisites",
                  NUM_FILES      |-> NUM_FILES,
                  KEEP_LOCAL     |-> KEEP_LOCAL,
                  missing        |-> missing,
                  stdin          |-> stdin,
                  REPLY          |-> <<>>,
                  tempDirExisted |-> tempDirExisted,
                  stale          |-> stale,
                  tempDir        |-> tempDirExisted,
                  local          |-> [n \in 1..NUM_FILES |->
                                         IF n \in stale THEN "stale" ELSE "absent"],
                  generated      |-> {},
                  uploaded       |-> {},
                  i              |-> 1,
                  success_count  |-> 0,
                  failed_count   |-> 0,
                  log            |-> <<>>,
                  status         |-> -1]

SpecBulk == InitBulk /\ [][NextBulk]_vars

(***************************************************************************)
(* Properties of the generators.                                           *)
(***************************************************************************)
RECURSIVE Sum(_)
Sum(ns) == IF ns = <<>> THEN 0 ELSE ns[1] + Sum(Tail(ns))

\* a pattern whose characters are one byte each in UTF-8
IsAscii(str) == \A k \in 1..Len(str) : str[k] < 128

\* the pattern of a text run is one byte per character: the default one, or
\* a given one of ASCII characters
SingleByteText(run) ==
    run.options.type = "text" /\ IsAscii(run.options.pattern.text)

\* C1: once a generator has signalled the end of the sequence, the lengths
\* of the chunks it emitted add up to targetBytes exactly, for the text and
\* for the binary generator; where every character is one byte (binary data
\* and single-byte text patterns) the bytes handed on are as many, as long as
\* no write has failed.
C1_ChunkLengthsSumToTarget ==
    \A i \in DOMAIN runs :
        runs[i].ended =>
            /\ Sum(runs[i].pushed) = runs[i].targetBytes
            /\ (runs[i].error = "none"
                  /\ (runs[i].options.type = "binary" \/ SingleByteText(runs[i])))
                  => SumLen(runs[i].file) + SumLen(runs[i].buffer) = runs[i].targetBytes

\* a text run of 9 characters has ended after three chunks, the last
\* one shorter
C1_Witness ==
    \E i \in DOMAIN runs :
        /\ runs[i].ended
        /\ runs[i].options.type = "text"
        /\ runs[i].targetBytes = 9
        /\ runs[i].pushed = <<4, 4, 1>>

\* C2: with a valid chunk size a generator emits ceil(targetBytes /
\* chunkBytes) chunks, every one but the last of exactly chunkBytes and the
\* last of targetBytes - (count - 1) * chunkBytes; 150000 bytes in chunks of
\* 65536 are emitted as 65536, 65536, 18928.
C2_ChunkCountAndLengths ==
    \A i \in DOMAIN runs :
        LET run        == runs[i]
            chunkBytes == run.chunkSize
            count      == (run.targetBytes + chunkBytes - 1) \div chunkBytes
        IN  (run.ended /\ chunkBytes > 0) =>
                /\ Len(run.pushed) = count
                /\ \A k \in 1..(count - 1) : run.pushed[k] = chunkBytes
                /\ count > 0 =>
                      run.pushed[count] = run.targetBytes - (count - 1) * chunkBytes
                /\ (run.targetBytes = 150000 /\ chunkBytes = 65536) =>
                      run.pushed = <<65536, 65536, 18928>>

\* the binary generator has ended after 65536, 65536 and 18928 bytes
C2_Witness ==
    \E i \in DOMAIN runs :
        /\ runs[i].ended
        /\ runs[i].options.type = "binary"
        /\ runs[i].targetBytes = 150000
        /\ runs[i].chunkSize = 65536
        /\ runs[i].pushed = <<65536, 65536, 18928>>

\* the run asks for the sequential fill: 'sequence', or a value that is none
\* of 'random', 'zeros' and 'ones'
IsSequentialRun(run) ==
    run.options.type = "binary" /\ run.options.binaryPattern \notin {"random", "zeros", "ones"}

\* C3: with the sequential fill the byte at absolute offset i of the output
\* is i mod 16, whatever the chunk size.
C3_SequentialByAbsoluteOffset ==
    \A i \in DOMAIN runs :
        IsSequentialRun(runs[i]) =>
            LET written == Bytes(runs[i].file)
            IN  \A k \in 1..Len(written) : written[k] = (k - 1) % 16

\* the first n bytes of the bytes p repeated back to back
RepeatedPrefix(p, n) == [k \in 1..n |-> p[((k - 1) % Len(p)) + 1]]

\* a text run with a pattern given on the command line
HasGivenPattern(run) == run.options.type = "text" /\ ~Falsy(run.options.pattern)

\* C4 as stated: with a given pattern P the output is the first targetBytes
\* bytes of P repeated back to back ("AB" and 10 give "ABABABABAB").
C4_PatternRepeated ==
    \A i \in DOMAIN runs :
        (runs[i].pc = "done" /\ HasGivenPattern(runs[i])) =>
            Bytes(runs[i].file) = RepeatedPrefix(Utf8(runs[i].options.pattern.text),
                                          runs[i].targetBytes)

\* the chunks of a text output: each is the UTF-8 encoding of the first
\* characters of q repeated back to back, chunkBytes of them or as many as
\* are still missing
RECURSIVE ChunksOf(_, _, _)
ChunksOf(q, remaining, chunkBytes) ==
    IF remaining <= 0 THEN <<>>
    ELSE LET n == Min(remaining, chunkBytes)
         IN  Utf8(RepeatedPrefix(q, n)) \o ChunksOf(q, remaining - n, chunkBytes)

\* C4, amended: with a given pattern P the output is, chunk by chunk, the
\* UTF-8 encoding of P followed by a line feed, repeated back to back and cut
\* to the length of the chunk, every chunk starting again at the first
\* character of P; "AB" and 10 in one chunk give "AB\nAB\nAB\nA".
C4_PatternWithLineFeedPerChunk ==
    \A i \in DOMAIN runs :
        LET run == runs[i]
        IN  (run.pc = "done" /\ HasGivenPattern(run)) =>
                /\ Bytes(run.file) = ChunksOf(run.options.pattern.text \o <<10>>,
                                       run.targetBytes, run.generator.chunkSize)
                /\ (run.options.pattern.text = <<65, 66>> /\ run.targetBytes = 10
                        /\ run.generator.chunkSize >= 10) =>
                      Bytes(run.file) = <<65, 66, 10, 65, 66, 10, 65, 66, 10, 65>>

\* pattern "AB", 10 characters in one chunk: the file holds "AB\nAB\nAB\nA"
C4_Witness ==
    \E i \in DOMAIN runs :
        /\ runs[i].pc = "done"
        /\ HasGivenPattern(runs[i])
        /\ runs[i].options.pattern.text = <<65, 66>>
        /\ runs[i].targetBytes = 10
        /\ Bytes(runs[i].file) = <<65, 66, 10, 65, 66, 10, 65, 66, 10, 65>>

\* C5: when a run has completed, the bytes written to the sink are exactly
\* parseSize(size) many, for any text pattern.
C5_BytesWrittenEqualTarget ==
    \A i \in DOMAIN runs :
        runs[i].pc = "done" => SumLen(runs[i].file) = runs[i].targetBytes

\* C6: two completed runs of the same command line whose fill is not random
\* have written the same bytes.
C6_SameInputsSameBytes ==
    (/\ DOMAIN runs = {1, 2}
     /\ runs[1].options = runs[2].options
     /\ runs[1].pc = "done" /\ runs[2].pc = "done"
     /\ ~(runs[1].options.type = "binary" /\ runs[1].options.binaryPattern = "random"))
        => Bytes(runs[1].file) = Bytes(runs[2].file)

\* two runs of a binary fill with zeros have completed with the same three
\* bytes, written in chunks of two
C6_Witness ==
    /\ DOMAIN runs = {1, 2}
    /\ runs[1].options = runs[2].options
    /\ runs[1].pc = "done" /\ runs[2].pc = "done"
    /\ runs[1].options.type = "binary" /\ runs[1].options.binaryPattern = "zeros"
    /\ Bytes(runs[1].file) = <<0, 0, 0>> /\ Bytes(runs[2].file) = <<0, 0, 0>>
    /\ runs[1].pushed = <<2, 1>>

\* the exponent of two of a unit's multiplier: B 1, KB 1024, MB 1024^2,
\* GB 1024^3, TB 1024^4
UnitExponent(unit) ==
    LET u == ToUpperCase(unit)
    IN  IF u = <<"K", "B">> THEN 10
        ELSE IF u = <<"M", "B">> THEN 20
        ELSE IF u = <<"G", "B">> THEN 30
        ELSE IF u = <<"T", "B">> THEN 40
        ELSE 0

\* floor(number * multiplier) of the decimal numeral whole.frac, in exact
\* arithmetic
ExactFloor(whole, frac, unit) ==
    DivPow10(Shl(DecValue(whole \o frac), UnitExponent(unit)), Len(frac)).q

\* C7: for an accepted string parseSize returns floor(number * multiplier),
\* the unit defaulting to bytes.
C7_ParseSizeIsFloor ==
    (parsed.called /\ ~parsed.threw) =>
        LET match == SizeMatch(sizeStr)
        IN  parsed.bytes = ExactFloor(match.whole, match.frac, match.unit)

\* the strings of digits, optionally a dot and digits, then at most one
\* space, then optionally one of B, KB, MB, GB, TB in any case
InGrammar(s) ==
    \E n1 \in 1..Len(s) :
        /\ \A k \in 1..n1 : s[k] \in DigitChars
        /\ \E n2 \in 0..(Len(s) - n1) :
              /\ n2 # 1
              /\ n2 > 0 => s[n1 + 1] = "."
              /\ \A k \in (n1 + 2)..(n1 + n2) : s[k] \in DigitChars
              /\ \E sp \in 0..1 :
                    /\ sp = 1 => (n1 + n2 + 1 <= Len(s) /\ s[n1 + n2 + 1] = " ")
                    /\ LET rest == SubSeq(s, n1 + n2 + sp + 1, Len(s))
                       IN  rest = <<>> \/ ToUpperCase(rest) \in Units

\* C8: parseSize accepts a string exactly when it is a number, at most one
\* space and an optional unit; every other string is rejected.
C8_AcceptsExactlyTheGrammar ==
    parsed.called => (~parsed.threw <=> InGrammar(sizeStr))

\* C9: a chunk size that is not positive makes the run fail: no generator is
\* built for it.
C9_NonPositiveChunkSizeFails ==
    \A i \in DOMAIN runs :
        (runs[i].pc \notin {"action", "exit1"} /\ runs[i].chunkSize <= 0) =>
            /\ runs[i].generator = NoGenerator
            /\ runs[i].pc \in {"generateData", "create"}

\* the --size of the run is written with a minus sign
NegativeSize(run) == run.options.size # <<>> /\ run.options.size[1] = "-"

\* C10: a negative size is rejected before anything is emitted: the run
\* ends with "Invalid size format", without a generator, a chunk, an end of
\* sequence or an output file; and no generator has a negative targetSize.
C10_NegativeTargetRejectedFirst ==
    \A i \in DOMAIN runs :
        /\ runs[i].generator # NoGenerator => runs[i].generator.targetSize >= 0
        /\ NegativeSize(runs[i]) =>
              /\ runs[i].pc \in {"action", "generateData", "exit1"}
              /\ runs[i].pc = "exit1" => runs[i].error = "Invalid size format"
              /\ runs[i].generator = NoGenerator
              /\ runs[i].pushed = <<>> /\ ~runs[i].ended
              /\ ~runs[i].fileExists /\ runs[i].file = <<>>

\* a run with --size -1 and a good chunk size has ended with "Invalid size
\* format"
C10_Witness ==
    \E i \in DOMAIN runs :
        /\ NegativeSize(runs[i])
        /\ runs[i].chunkSize > 0
        /\ runs[i].pc = "exit1"
        /\ runs[i].error = "Invalid size format"


\* the run has ended with one of the validation errors
ValidationError(run) ==
    run.pc = "exit1" /\ run.error \in {"Invalid size format", "Unknown type"}

\* C11: when a run ends with a validation error (a size or a chunk size that
\* does not parse, a type that is neither 'text' nor 'binary') no output file
\* has been created, _read has not been called and no chunk has been emitted.
C11_ValidationBeforeOutput ==
    \A i \in DOMAIN runs :
        ValidationError(runs[i]) =>
            /\ ~runs[i].fileExists /\ runs[i].file = <<>>
            /\ runs[i].reads = 0 /\ runs[i].pushed = <<>> /\ ~runs[i].ended
            /\ runs[i].buffer = <<>> /\ runs[i].reports = <<>>

\* a run has ended with "Unknown type" after both sizes parsed and the
\* directory was made
C11_Witness ==
    \E i \in DOMAIN runs :
        /\ ValidationError(runs[i])
        /\ runs[i].error = "Unknown type"
        /\ runs[i].dirExists
        /\ runs[i].chunkSize > 0

\* the chunk that took the bytes written from prev to cur crossed a multiple
\* of 10% of target
CrossesThreshold(prev, cur, target) ==
    \E j \in 1..10 : prev * 10 < j * target /\ j * target <= cur * 10

\* C12: the progress line is written on every chunk with which the bytes
\* written cross a multiple of 10% of targetBytes, the chunk that completes
\* the target among them.
C12_EveryThresholdReported ==
    \A i \in DOMAIN runs :
        \A k \in 1..Len(runs[i].reports) :
            LET prev == IF k = 1 THEN 0 ELSE runs[i].reports[k - 1].bytesWritten
                cur  == runs[i].reports[k].bytesWritten
            IN  CrossesThreshold(prev, cur, runs[i].targetBytes)
                    => runs[i].reports[k].written

\* the chunk _read pushed with n items of the generator's chunk, as the
\* stream holds it
Encoded(g, n) ==
    IF g.kind = "text" THEN Literal(Utf8(Items(Slice(g.chunk, n))))
    ELSE Slice(g.chunk, n)

\* C13: with the progress listener registered first, every chunk the
\* generator pushed is either still held or has gone to the file, once each
\* and in the order pushed, and the progress listener has had exactly the
\* chunks that went to the file.
C13_ListenerTakesNoChunk ==
    \A i \in DOMAIN runs :
        LET run == runs[i]
            out == run.file \o run.buffer
        IN  (run.generator # NoGenerator /\ run.error = "none") =>
                /\ Len(out) = Len(run.pushed)
                /\ \A k \in 1..Len(out) : out[k] = Encoded(run.generator, run.pushed[k])
                /\ Len(run.reports) = Len(run.file)
                /\ \A k \in 1..Len(run.reports) :
                      run.reports[k].bytesWritten = SumLen(SubSeq(run.file, 1, k))

\* a run is done after three chunks: all three are in the file and the
\* listener has counted all three
C13_Witness ==
    \E i \in DOMAIN runs :
        /\ runs[i].pc = "done"
        /\ runs[i].listeners = <<"progress", "pipe">>
        /\ Len(runs[i].pushed) = 3
        /\ Len(runs[i].file) = 3
        /\ Len(runs[i].reports) = 3

\* C14: every call of _read pushes exactly one chunk or ends the stream,
\* never both and never two chunks, and nothing is pushed and the stream does
\* not end without a call of _read.
C14_OneStepPerPull ==
    [][\A i \in DOMAIN runs :
          LET calls  == runs'[i].reads - runs[i].reads
              chunks == Len(runs'[i].pushed) - Len(runs[i].pushed)
              ends   == IF runs'[i].ended /\ ~runs[i].ended THEN 1 ELSE 0
          IN  calls \in {0, 1} /\ chunks + ends = calls]_vars

\* three calls of _read: two chunks and the end of the stream
C14_Witness ==
    \E i \in DOMAIN runs :
        runs[i].reads = 3 /\ Len(runs[i].pushed) = 2 /\ runs[i].ended

\* the items of pattern data a generator holds: this.chunk, and this.basePattern
\* in the text generator
Held(g) == g.chunk.length + (IF g.kind = "text" THEN Len(g.basePattern) ELSE 0)

PatternLength(run) ==
    (IF Falsy(run.options.pattern) THEN Len(DefaultPattern)
     ELSE Len(run.options.pattern.text)) + 1

ByteForItem(run) == run.options.type = "binary" \/ SingleByteText(run)

\* C16: every chunk pushed, 'random' included, is the first toEmit items of
\* the chunk built at construction, toEmit = min(targetBytes - emitted,
\* chunkBytes); so the output byte at offset i is byte i mod chunkBytes of
\* that chunk, and the output repeats with period chunkBytes.
C16_PrefixOfPrebuiltChunk ==
    \A i \in DOMAIN runs :
        LET run      == runs[i]
            g        == run.generator
            prebuilt == Items(g.chunk)
            out      == Bytes(run.file)
        IN  (g # NoGenerator /\ ByteForItem(run)) =>
                /\ \A k \in 1..Len(run.pushed) :
                      run.pushed[k] = Min(run.targetBytes - Sum(SubSeq(run.pushed, 1, k - 1)),
                                          g.chunkSize)
                /\ \A x \in 1..Len(out) : out[x] = prebuilt[((x - 1) % g.chunkSize) + 1]
                /\ \A x \in (g.chunkSize + 1)..Len(out) : out[x] = out[x - g.chunkSize]

\* a 'random' run of 9 bytes in chunks of 4 is done; the chunk holds both
\* byte values
C16_Witness ==
    \E i \in DOMAIN runs :
        /\ runs[i].pc = "done"
        /\ runs[i].options.type = "binary"
        /\ runs[i].options.binaryPattern = "random"
        /\ runs[i].pushed = <<4, 4, 1>>
        /\ Bytes(runs[i].file) = <<7, 200, 200, 7, 7, 200, 200, 7, 7>>

\* C17: when a write fails the run is over at once: it ends with the error
\* and status 1, nothing is pushed, written or retried afterwards, and the
\* file keeps what was written before the failure.
C17_WriteFailureAborts ==
    /\ [](\A i \in DOMAIN runs :
            runs[i].error = "Write failed" => runs[i].pc = "exit1" /\ runs[i].fileExists)
    /\ [][\A i \in DOMAIN runs :
            /\ runs[i].error = "Write failed" => runs'[i] = runs[i]
            /\ runs'[i].error = "Write failed" =>
                  /\ runs'[i].fileExists
                  /\ SubSeq(runs'[i].file, 1, Len(runs[i].file)) = runs[i].file
                  /\ runs'[i].pushed = runs[i].pushed
                  /\ runs'[i].reads = runs[i].reads]_vars

\* the write of the second chunk of three has failed: the first is in the
\* file, the generator had not ended
C17_Witness ==
    \E i \in DOMAIN runs :
        /\ runs[i].pc = "exit1"
        /\ runs[i].error = "Write failed"
        /\ runs[i].fileExists
        /\ Len(runs[i].file) = 1
        /\ Len(runs[i].reports) = 2
        /\ ~runs[i].ended

\* every byte of the chunk is v
AllBytes(chunk, v) ==
    \A k \in 1..Min(chunk.length, Len(chunk.period)) : chunk.period[k] = v

\* C18: with 'zeros' every byte pushed and every byte written is 0, with
\* 'ones' every one is 255, whatever the size and the chunk size.
C18_ZerosAndOnes ==
    \A i \in DOMAIN runs :
        LET run == runs[i]
            out == run.file \o run.buffer
        IN  run.options.type = "binary" =>
                /\ run.options.binaryPattern = "zeros" =>
                      \A k \in 1..Len(out) : AllBytes(out[k], 0)
                /\ run.options.binaryPattern = "ones" =>
                      \A k \in 1..Len(out) : AllBytes(out[k], 255)

\* a run with 'ones' is done with 255, 255, 255 in the file, written in two
\* chunks
C18_Witness ==
    \E i \in DOMAIN runs :
        /\ runs[i].pc = "done"
        /\ runs[i].options.type = "binary"
        /\ runs[i].options.binaryPattern = "ones"
        /\ runs[i].pushed = <<2, 1>>
        /\ Bytes(runs[i].file) = <<255, 255, 255>>


(***************************************************************************)
(* Properties of infra/destroy.sh.                                         *)
(***************************************************************************)
\* the run got as far as the first prompt and a line was there to read
Asked == destroy.listed /\ Len(destroy.typed) >= 1

\* C20: the deletion of the resource group is issued only if the group
\* exists, the line typed at the first prompt is exactly yes and the line
\* typed at the second prompt is exactly the name of the resource group; a run
\* that finds no group or is declined at the first prompt exits with 0 and
\* deletes nothing, a run where the typed name is not the name exits with 1
\* and deletes nothing.
C20_DeletionOnlyOnExactAnswers ==
    /\ destroy.deletions > 0 =>
          /\ destroy.groupExists
          /\ Len(destroy.typed) = 2
          /\ destroy.typed[1] = Yes
          /\ destroy.typed[2] = destroy.name
    /\ destroy.pc = "exit" /\ destroy.azInstalled /\ destroy.loggedIn
          /\ ~destroy.groupExists
       => destroy.status = 0 /\ destroy.deletions = 0
    /\ destroy.pc = "exit" /\ Asked /\ destroy.typed[1] # Yes
       => destroy.status = 0 /\ destroy.deletions = 0
    /\ destroy.pc = "exit" /\ Asked /\ destroy.typed[1] = Yes
          /\ Len(destroy.typed) = 2 /\ destroy.typed[2] # destroy.name
       => destroy.status = 1 /\ destroy.deletions = 0

\* what does hold: the deletion is issued at most once, and only if the group
\* exists and the values read assigns from the two lines, blanks stripped at
\* both ends and backslashes dropped, are yes and the name
DeletionOnlyOnValuesRead ==
    /\ destroy.deletions <= 1
    /\ destroy.deletions > 0 =>
          /\ destroy.groupExists
          /\ Len(destroy.typed) = 2
          /\ ReadValue(destroy.typed[1]) = Yes
          /\ ReadValue(destroy.typed[2]) = destroy.name
    /\ destroy.pc = "exit" /\ Asked /\ ReadValue(destroy.typed[1]) # Yes
       => destroy.status = 0 /\ destroy.deletions = 0
    /\ destroy.pc = "exit" /\ Asked /\ ReadValue(destroy.typed[1]) = Yes
          /\ Len(destroy.typed) = 2 /\ ReadValue(destroy.typed[2]) # destroy.name
       => destroy.status = 1 /\ destroy.deletions = 0

\* a deletion issued after a first line that is not exactly yes
DeletionAfterInexactAnswer ==
    destroy.deletions > 0 /\ destroy.typed[1] # Yes


(***************************************************************************)
(* Properties of src/data-generator/bulk-upload.sh.                        *)
(***************************************************************************)
\* step s of file n is at position k of the log
StepAt(k, n, s) == bulk.log[k] = <<n, s>>

\* C19: with KEEP_LOCAL=false the steps of every file come in the order
\* generate, upload, delete, and the local file of a file is deleted by
\* process_file only after the upload of that file has succeeded: a file that
\* was not uploaded is never deleted.
C19_DeletedOnlyAfterUpload ==
    bulk.pc # "none" /\ bulk.KEEP_LOCAL = "false" =>
       \A k \in 1..Len(bulk.log) :
          LET n == bulk.log[k][1]
          IN  /\ bulk.log[k][2] \in {"upload", "upload failed"} =>
                    \E j \in 1..(k - 1) : StepAt(j, n, "generate")
              /\ bulk.log[k][2] = "delete" =>
                    /\ \E j \in 1..(k - 1) : StepAt(j, n, "upload")
                    /\ n \in bulk.uploaded


(***************************************************************************)
(* Properties of the generators as sequences that are pulled.              *)
(***************************************************************************)
\* C21: a generator that is pulled again and again comes to the end of the
\* sequence: a call of _read made while generated < targetSize adds at least
\* 1 to generated, the end is signalled on call number ceil(targetBytes /
\* chunkBytes) + 1, and a run whose streams keep going and whose writes do
\* not fail does reach it.
C21_EventualEndOfSequence ==
    /\ [](\A i \in DOMAIN runs :
             (runs[i].ended /\ runs[i].chunkSize > 0) =>
                 runs[i].reads = Ceil(runs[i].targetBytes, runs[i].chunkSize) + 1)
    /\ [][\A i \in DOMAIN runs :
             (runs'[i].reads = runs[i].reads + 1
                /\ runs[i].generator.generated < runs[i].generator.targetSize)
             => runs'[i].generator.generated >= runs[i].generator.generated + 1]_vars
    /\ (runs[1].pc = "pipeline") ~> (runs[1].ended \/ runs[1].error # "none")

\* 5 bytes in chunks of 2: the end is signalled on the fourth call of _read
C21_Witness ==
    /\ runs[1].ended
    /\ runs[1].targetBytes = 5
    /\ runs[1].chunkSize = 2
    /\ runs[1].reads = 4
    /\ runs[1].generator.generated = 5


\* what a call of _read would do to generator g
ReadOf(g) == IF g.kind = "text" THEN TextRead(g) ELSE BinaryRead(g)

\* C22: the end of the sequence is terminal: after it no call of _read pushes
\* a chunk (a further call would signal the end again), generated does not
\* change any more and the generator does not start again.
C22_EndIsTerminal ==
    /\ [](\A i \in DOMAIN runs :
             runs[i].ended =>
                 /\ ReadOf(runs[i].generator).eof
                 /\ ReadOf(runs[i].generator).generated = runs[i].generator.generated)
    /\ [][\A i \in DOMAIN runs :
             runs[i].ended =>
                 /\ runs'[i].ended
                 /\ runs'[i].pushed = runs[i].pushed
                 /\ runs'[i].generator = runs[i].generator]_vars

\* a run of 9 bytes is done: three chunks were written after the end was
\* signalled or before it, and nothing more was pushed
C22_Witness ==
    \E i \in DOMAIN runs :
        /\ runs[i].pc = "done"
        /\ runs[i].ended
        /\ runs[i].targetBytes = 9
        /\ runs[i].generator.generated = 9
        /\ Len(runs[i].file) = 3


\* C23: in every state of a generator generated is the sum of the lengths of
\* the chunks pushed so far and lies between 0 and targetSize; it never
\* decreases, and a call of _read changes nothing of the generator but
\* generated: targetSize, chunkSize and the chunk stay as they are.
C23_GeneratedCounter ==
    /\ [](\A i \in DOMAIN runs :
             runs[i].generator # NoGenerator =>
                 /\ runs[i].generator.generated = Sum(runs[i].pushed)
                 /\ 0 <= runs[i].generator.generated
                 /\ runs[i].generator.generated <= runs[i].generator.targetSize)
    /\ [][\A i \in DOMAIN runs :
             runs[i].generator # NoGenerator =>
                 /\ runs'[i].generator.generated >= runs[i].generator.generated
                 /\ runs'[i].generator =
                       [runs[i].generator EXCEPT !.generated = runs'[i].generator.generated]]_vars

\* a binary generator in the middle of 9 bytes: two chunks of 4 pushed
C23_Witness ==
    \E i \in DOMAIN runs :
        /\ runs[i].generator # NoGenerator
        /\ runs[i].generator.kind = "binary"
        /\ runs[i].generator.targetSize = 9
        /\ runs[i].generator.generated = 8
        /\ runs[i].pushed = <<4, 4>>


\* the bytes 0..15
Ramp == [k \in 1..16 |-> k - 1]

\* a --binary-pattern that is none of 'random', 'zeros', 'ones': 'sequence',
\* which is also what an absent option gives, or a misspelt name
OtherBinaryPattern(run) ==
    run.options.type = "binary"
       /\ run.options.binaryPattern \notin {"random", "zeros", "ones"}

\* C25: for binary data a binaryPattern other than 'random', 'zeros' and
\* 'ones' is not an error: the run fails only for a size that does not parse
\* or a write that fails, and the generator is built with the sequence 0..15
\* repeated, which is what the file gets.
C25_OtherPatternIsSequence ==
    \A i \in DOMAIN runs :
        OtherBinaryPattern(runs[i]) =>
            /\ runs[i].error \in {"none", "Invalid size format", "Write failed"}
            /\ runs[i].pc \in {"open", "pipeline", "done"} =>
                  /\ runs[i].generator # NoGenerator
                  /\ runs[i].generator.chunk =
                        [period |-> Ramp, length |-> runs[i].generator.chunkSize]
            /\ \A k \in 1..Len(runs[i].file) : runs[i].file[k].period = Ramp

\* a run with the misspelt 'sequential' is done: 5 bytes in chunks of 4
C25_Witness ==
    \E i \in DOMAIN runs :
        /\ runs[i].pc = "done"
        /\ runs[i].options.type = "binary"
        /\ runs[i].options.binaryPattern = "sequential"
        /\ Bytes(runs[i].file) = <<0, 1, 2, 3, 0>>

(***************************************************************************)
(* Properties of the progress listener.                                    *)
(***************************************************************************)
\* the progress lines a run has written
Notifications(run) == SelectSeq(run.reports, LAMBDA r : r.written)

\* at most 11 lines, percentages that do not decrease and do not exceed 100,
\* and a line with 100 for the last chunk of a run that is done
ProgressReportsOf(run) ==
    LET lines == Notifications(run)
    IN  /\ Len(lines) <= 11
        /\ \A k \in 1..Len(lines) : lines[k].progress <= 100
        /\ \A k \in 1..(Len(lines) - 1) : lines[k].progress <= lines[k + 1].progress
        /\ run.pc = "done" =>
              /\ run.reports # <<>>
              /\ run.reports[Len(run.reports)].written
              /\ run.reports[Len(run.reports)].progress = 100

\* C24: for every targetBytes > 0 and any number of chunks the progress
\* listener writes at most 11 lines in a run, the percentages it reports do
\* not decrease and never exceed 100, and the last chunk of a run gets a line
\* that reports 100%.
C24_ProgressReports ==
    \A i \in DOMAIN runs :
        runs[i].targetBytes > 0 => ProgressReportsOf(runs[i])

\* the same for the runs whose chunks have one byte per item counted: binary
\* data and text patterns of one byte per character
ProgressReportsOfSingleByteRuns ==
    \A i \in DOMAIN runs :
        (runs[i].targetBytes > 0
           /\ (runs[i].options.type = "binary" \/ SingleByteText(runs[i])))
        => ProgressReportsOf(runs[i])


\* the run has printed its final summary: it was confirmed and ended with 0
ReachedSummary ==
    bulk.pc \in {"trap", "exit"} /\ bulk.status = 0 /\ ReplyIsYes(bulk.REPLY)

\* C26: when the script reaches its final summary success_count +
\* failed_count = NUM_FILES, and success_count is the number of files that
\* were both generated and uploaded: a file whose upload failed is counted in
\* failed_count.
C26_CountsAtSummary ==
    (bulk.pc # "none" /\ ReachedSummary) =>
        /\ bulk.success_count + bulk.failed_count = bulk.NUM_FILES
        /\ bulk.success_count = Cardinality(bulk.generated \cap bulk.uploaded)

\* what holds of the counters: they add up, and success_count counts the
\* files that were there to upload after the generator ran, whether or not
\* they were generated in full or uploaded
CountsAddUp ==
    (bulk.pc # "none" /\ ReachedSummary) =>
        /\ bulk.success_count + bulk.failed_count = bulk.NUM_FILES
        /\ bulk.success_count =
              Cardinality({n \in 1..bulk.NUM_FILES :
                             \E k \in 1..Len(bulk.log) :
                                 bulk.log[k][1] = n
                                    /\ bulk.log[k][2] \in {"upload", "upload failed"}})


\* TEMP_DIR and the files in it are as they were before the run, and nothing
\* was generated, uploaded or deleted
NothingDone ==
    /\ bulk.log = <<>>
    /\ bulk.uploaded = {}
    /\ bulk.tempDir = bulk.tempDirExisted
    /\ bulk.local = [n \in 1..bulk.NUM_FILES |->
                        IF n \in bulk.stale THEN "stale" ELSE "absent"]

\* C27: a run in which a prerequisite is missing or the answer at the prompt
\* is anything other than yes exits without generating, uploading or
\* deleting anything: the file system, a TEMP_DIR that was there before the
\* run included, is as it was.
C27_DeclinedRunChangesNothing ==
    (bulk.pc = "exit" /\ (bulk.missing # "none" \/ bulk.REPLY # Yes)) => NothingDone

\* what holds: a run in which a prerequisite is missing or the answer is not
\* yes in any case of letters generates and uploads nothing, and leaves
\* TEMP_DIR as it was if KEEP_LOCAL is not false or TEMP_DIR was not there
DeclinedRunKeepsKeptFiles ==
    (bulk.pc = "exit" /\ (bulk.missing # "none" \/ ~ReplyIsYes(bulk.REPLY))) =>
        /\ bulk.log = <<>>
        /\ bulk.uploaded = {}
        /\ (bulk.KEEP_LOCAL # "false" \/ ~bulk.tempDirExisted) => NothingDone


\* the file numbers whose file in TEMP_DIR was written by the generator of
\* this run
GeneratedFiles ==
    {n \in 1..bulk.NUM_FILES : bulk.local[n] \in {"partial", "complete"}}

\* C28: with KEEP_LOCAL=false the files are processed one at a time in the
\* order 1..NUM_FILES (the steps logged start with file 1 and go on with the
\* same file or the next one, up to the file main is at), and at every point
\* of the run at most one generated file is in TEMP_DIR, the file being
\* processed, whether the generations and uploads succeed or fail.
C28_OneFileAtATime ==
    (bulk.pc # "none" /\ bulk.KEEP_LOCAL = "false") =>
        /\ bulk.log # <<>> => bulk.log[1] = <<1, "generate">>
        /\ \A k \in 1..(Len(bulk.log) - 1) :
              \/ bulk.log[k + 1][1] = bulk.log[k][1] /\ bulk.log[k + 1][2] # "generate"
              \/ bulk.log[k + 1] = <<bulk.log[k][1] + 1, "generate">>
        /\ \A k \in 1..Len(bulk.log) : bulk.log[k][1] \in 1..Min(bulk.i, bulk.NUM_FILES)
        /\ bulk.pc \in {"cleanup", "verify"} =>
              \A n \in 1..bulk.NUM_FILES :
                 \E k \in 1..Len(bulk.log) : bulk.log[k] = <<n, "generate">>
        /\ Cardinality(GeneratedFiles) <= 1
        /\ GeneratedFiles \subseteq {bulk.i}

\* the second of two files is generated and the first is gone again
C28_Witness ==
    /\ bulk.pc = "upload"
    /\ bulk.KEEP_LOCAL = "false"
    /\ bulk.NUM_FILES = 2
    /\ bulk.i = 2
    /\ bulk.local = <<"absent", "complete">>
    /\ bulk.log = <<<<1, "generate">>, <<1, "upload failed">>, <<1, "delete">>,
                    <<2, "generate">>>>

=============================================================================
